---- MODULE Spec2Model ----
(***************************************************************************)
(* Column-name grammar engine of pr2-transformation.                        *)
(*                                                                         *)
(* A column name is a sequence of one-character strings, so that the        *)
(* regular expressions of core/utils.py are evaluated character by          *)
(* character, as Python's re module evaluates them.                         *)
(***************************************************************************)
EXTENDS Integers, Sequences, FiniteSets, TLC

VARIABLES
    var_name,                  \* the name handed to a grammar primitive
    call,                      \* which primitive has been applied to var_name
    result,                    \* what it returned
    table,                     \* dataset.table identifier of the source table
    columns,                   \* schema of the source table, in schema order
    pc,                        \* position of the current invocation
    processed_columns,         \* process_columns: the set of claimed names
    connect_id_clause,         \* process_columns: step 0
    one_off_clauses,           \* process_columns: step 1
    substring_clauses,         \* process_columns: step 2
    custom_transform_clauses,  \* process_columns: step 3
    loop_clauses,              \* process_columns: step 4
    grouped_loop_vars,         \* the dictionary group_vars_by_cid_and_loop_num returned
    valid_columns,             \* the list handed to group_vars_by_cid_and_loop_num
    select_clauses,            \* the SELECT list of the statement being built
    audit,                     \* the statements save_sql_string has stored
    stored_sql,                \* the audit location: the text kept for each destination
    submitted,                 \* the statements handed to client.query
    raised,                    \* the exception the invocation has raised
    source_tables,             \* table merge: the schemas of the source tables
    destination_table,         \* table merge: the destination, "" when missing
    batch_index,               \* profiling scan: i, where the next batch starts
    found_columns,             \* profiling scan: the columns collected so far
    batch_results,             \* profiling scan: what each batch query did
    logged_errors,             \* profiling scan: the calls of logger.error
    invocations,               \* how many invocations the service has started
    variable_list,             \* the names handed to fix_all_variables
    source_rows,               \* table merge: the Connect_ID values of each source table
    result_rows                \* table merge: the rows of the destination table

vars == <<var_name, call, result, table, columns, pc, processed_columns,
          connect_id_clause, one_off_clauses, substring_clauses,
          custom_transform_clauses, loop_clauses, grouped_loop_vars,
          valid_columns, select_clauses, audit, stored_sql, submitted,
          raised, source_tables, destination_table, batch_index,
          found_columns, batch_results, logged_errors, invocations,
          variable_list, source_rows, result_rows>>

grammar_vars == <<var_name, call, result>>
pipeline_vars == <<table, columns, pc, processed_columns, connect_id_clause,
                   one_off_clauses, substring_clauses, custom_transform_clauses,
                   loop_clauses, grouped_loop_vars, valid_columns, select_clauses>>
pipeline_vars_but_pc ==
    <<table, columns, processed_columns, connect_id_clause, one_off_clauses,
      substring_clauses, custom_transform_clauses, loop_clauses,
      grouped_loop_vars, valid_columns, select_clauses>>
io_vars == <<audit, stored_sql, submitted, raised>>
merge_vars == <<source_tables, destination_table>>
scan_vars == <<batch_index, found_columns, batch_results, logged_errors>>
row_vars == <<source_rows, result_rows>>
\* What the grammar functions and the statement builders leave alone.
other_vars == <<scan_vars, invocations, variable_list, row_vars>>

-----------------------------------------------------------------------------
(* Characters and Python's str methods                                      *)

Digits == <<"0", "1", "2", "3", "4", "5", "6", "7", "8", "9">>

UpperCase == <<"A", "B", "C", "D", "E", "F", "G", "H", "I", "J", "K", "L", "M",
               "N", "O", "P", "Q", "R", "S", "T", "U", "V", "W", "X", "Y", "Z">>

LowerCase == <<"a", "b", "c", "d", "e", "f", "g", "h", "i", "j", "k", "l", "m",
               "n", "o", "p", "q", "r", "s", "t", "u", "v", "w", "x", "y", "z">>

\* The characters in the order of their code points: 0-9 < A-Z < _ < a-z.
CodePointOrder == Digits \o UpperCase \o <<"_">> \o LowerCase

IndexIn(seq, c) == CHOOSE i \in 1..Len(seq) : seq[i] = c

ord(c) == IndexIn(CodePointOrder, c)

DigitChars == {Digits[i] : i \in 1..Len(Digits)}

IsDigitChar(c) == c \in DigitChars

\* str.isdigit(): non-empty and every character a digit.
isdigit(s) == Len(s) > 0 /\ \A i \in 1..Len(s) : IsDigitChar(s[i])

\* c.lower(), as a table from each upper-case letter to its lower-case one.
LowerOf ==
    [c \in {UpperCase[i] : i \in 1..Len(UpperCase)} |->
         LowerCase[IndexIn(UpperCase, c)]]

LowerChar(c) == IF c \in DOMAIN LowerOf THEN LowerOf[c] ELSE c

\* str.lower()
lower(s) == [i \in 1..Len(s) |-> LowerChar(s[i])]

\* s[i:] == t[:len] at position i of s
MatchesAt(s, i, t) ==
    /\ i + Len(t) - 1 <= Len(s)
    /\ \A k \in 1..Len(t) : s[i + k - 1] = t[k]

\* `sub in s`
Contains(s, sub) == \E i \in 1..(Len(s) + 1) : MatchesAt(s, i, sub)

RECURSIVE ReplaceFrom(_, _, _)
ReplaceFrom(s, i, sub) ==
    IF i > Len(s) THEN <<>>
    ELSE IF MatchesAt(s, i, sub) THEN ReplaceFrom(s, i + Len(sub), sub)
    ELSE <<s[i]>> \o ReplaceFrom(s, i + 1, sub)

\* s.replace(sub, ""): every non-overlapping occurrence, left to right.
replace(s, sub) == ReplaceFrom(s, 1, sub)

RECURSIVE SplitFrom(_, _, _)
SplitFrom(s, i, cur) ==
    IF i > Len(s) THEN <<cur>>
    ELSE IF s[i] = "_" THEN <<cur>> \o SplitFrom(s, i + 1, <<>>)
    ELSE SplitFrom(s, i + 1, Append(cur, s[i]))

\* s.split('_')
split(s) == SplitFrom(s, 1, <<>>)

RECURSIVE join(_)
\* "_".join(parts)
join(parts) ==
    IF Len(parts) = 0 THEN <<>>
    ELSE IF Len(parts) = 1 THEN parts[1]
    ELSE parts[1] \o <<"_">> \o join(Tail(parts))

RECURSIVE int(_)
\* int(s) of a digit string
int(s) ==
    IF Len(s) = 0 THEN 0
    ELSE 10 * int(SubSeq(s, 1, Len(s) - 1)) + (IndexIn(Digits, s[Len(s)]) - 1)

RECURSIVE str(_)
\* str(n) of a non-negative integer, as an f-string formats it
str(n) ==
    IF n < 10 THEN <<Digits[n + 1]>>
    ELSE str(n \div 10) \o <<Digits[(n % 10) + 1]>>

\* Lexicographic comparison of two strings by code point (Python's str <).
RECURSIVE StrLess(_, _)
StrLess(a, b) ==
    IF Len(b) = 0 THEN FALSE
    ELSE IF Len(a) = 0 THEN TRUE
    ELSE IF a[1] = b[1] THEN StrLess(Tail(a), Tail(b))
    ELSE ord(a[1]) < ord(b[1])

\* The end of the maximal run of digits that starts at position i (i - 1: none).
RECURSIVE DigitRunEnd(_, _)
DigitRunEnd(s, i) ==
    IF i <= Len(s) /\ IsDigitChar(s[i]) THEN DigitRunEnd(s, i + 1) ELSE i - 1

-----------------------------------------------------------------------------
(* core/constants.py                                                        *)

ALLOWED_NON_CID_VARIABLE_NAMES ==
    { <<"c", "o", "n", "n", "e", "c", "t", "_", "i", "d">> }

FORBIDDEN_NON_CID_VARIABLE_NAMES ==
    { <<"t", "o", "k", "e", "n">>,
      <<"u", "i", "d">>,
      <<"d", "a", "t", "e">>,
      <<"s", "h", "a">>,
      <<"s", "i", "t", "e", "A", "c", "r", "o", "n", "y", "m">>,
      <<"u", "t", "m", "_", "s", "o", "u", "r", "c", "e">>,
      <<"v", "e", "r", "i", "f", "i", "e", "d", "S", "e", "e", "n">>,
      <<"i", "d">>,
      <<"p", "i", "n">>,
      <<"s", "t", "a", "t", "e", "_", "s", "t", "u", "d", "y", "I", "d">>,
      <<"s", "t", "a", "t", "e", "_", "u", "i", "d">>,
      <<"f", "i", "r", "s", "t", "S", "u", "r", "v", "e", "y", "C", "o", "m", "p",
        "l", "e", "t", "e", "d", "S", "e", "e", "n">> }

\* In list order: excise_substrings applies them one after the other.
SUBSTRINGS_TO_FIX ==
    << <<"_", "n", "u", "m">>, <<"s", "t", "a", "t", "e", "_">> >>

ALLOWED_NON_CID_SUBSTRINGS ==
    { <<"n", "u", "m">>, <<"s", "t", "a", "t", "e">> }

SUBSTRINGS_DATATYPE_CONFLICT ==
    { <<"p", "r", "o", "v", "i", "d", "e", "d">>,
      <<"s", "t", "r", "i", "n", "g">>,
      <<"i", "n", "t", "e", "g", "e", "r">>,
      <<"e", "n", "t", "i", "t", "y">> }

SUBSTRINGS_MISSNAMED ==
    { <<"s", "i", "b", "c", "a", "n", "c", "3", "d">>,
      <<"c", "h", "o", "l">>,
      <<"m", "o", "m", "c", "a", "n", "c", "3", "d">>,
      <<"s", "i", "b", "c", "a", "n", "c", "3", "o">>,
      <<"u", "f">>,
      <<"d", "a", "d", "c", "a", "n", "c", "3", "k">>,
      <<"b", "l", "o", "o", "d", "c", "l", "o", "t">>,
      <<"d", "e", "p", "r", "e", "s", "s", "2">>,
      <<"h", "t", "n">>,
      <<"a", "p", "p", "e", "n", "d">>,
      <<"t", "u", "b", "l", "i", "g">>,
      <<"t", "o", "n", "s", "i", "l", "s">>,
      <<"b", "r", "e", "a", "s", "t", "d", "i", "s">>,
      <<"d", "m", "2">>,
      <<"2", "0", "r", "e", "q", "u", "i", "r", "e", "d">> }

EXCLUDED_NON_CID_SUBSTRINGS == SUBSTRINGS_DATATYPE_CONFLICT \cup SUBSTRINGS_MISSNAMED

Connect_ID == <<"C", "o", "n", "n", "e", "c", "t", "_", "I", "D">>

-----------------------------------------------------------------------------
(* core/utils.py: the name grammar primitives                               *)

\* The number of digits of a concept ID: the {9} of r'[dD]_(\d{9})'.
CidLen == 9

\* Python's None, for a function whose other results are non-negative integers.
None == -1

\* r'[dD]_(\d{9})' matches at position p.
CidMatchAt(s, p) ==
    /\ p + 1 + CidLen <= Len(s)
    /\ s[p] \in {"d", "D"}
    /\ s[p + 1] = "_"
    /\ \A k \in 2..(CidLen + 1) : IsDigitChar(s[p + k])

RECURSIVE FindCids(_, _)
\* pattern.findall(var): the groups of the non-overlapping matches, left to right.
FindCids(s, p) ==
    IF p > Len(s) THEN <<>>
    ELSE IF CidMatchAt(s, p)
         THEN <<SubSeq(s, p + 2, p + 1 + CidLen)>> \o FindCids(s, p + 2 + CidLen)
         ELSE FindCids(s, p + 1)

extract_ordered_concept_ids(var) == FindCids(var, 1)

\* r'_[vV]\d+(?=_|$)' at position p: the position of the match's last
\* character, 0 when there is no match at p.
VersionMatchEnd(s, p) ==
    IF /\ p + 2 <= Len(s)
       /\ s[p] = "_"
       /\ s[p + 1] \in {"v", "V"}
       /\ IsDigitChar(s[p + 2])
    THEN LET q == DigitRunEnd(s, p + 2)
         IN IF q = Len(s) \/ s[q + 1] = "_" THEN q ELSE 0
    ELSE 0

RECURSIVE SearchVersion(_, _)
\* re.search: the leftmost match; f"_v{match.group(1)}" or "".
SearchVersion(s, p) ==
    IF p > Len(s) THEN <<>>
    ELSE LET q == VersionMatchEnd(s, p)
         IN IF q > 0
            THEN <<"_", "v">> \o SubSeq(s, p + 2, q)
            ELSE SearchVersion(s, p + 1)

RECURSIVE SearchVersionRaw(_, _)
SearchVersionRaw(s, p) ==
    IF p > Len(s) THEN <<>>
    ELSE IF VersionMatchEnd(s, p) > 0
         THEN SubSeq(s, p, VersionMatchEnd(s, p))
         ELSE SearchVersionRaw(s, p + 1)

\* Variant of extract_version_suffix: match.group(0), in the case it was written.
extract_version_suffix_as_written(var) == SearchVersionRaw(var, 1)

extract_version_suffix(var) == SearchVersion(var, 1)

RECURSIVE SubVersion(_, _)
\* re.sub(pattern, '', s): every non-overlapping match removed.
SubVersion(s, p) ==
    IF p > Len(s) THEN <<>>
    ELSE LET q == VersionMatchEnd(s, p)
         IN IF q > 0
            THEN SubVersion(s, q + 1)
            ELSE <<s[p]>> \o SubVersion(s, p + 1)

RECURSIVE SubFirstVersion(_, _)
\* re.sub(pattern, '', s, count=1): the leftmost match removed, nothing else.
SubFirstVersion(s, p) ==
    IF p > Len(s) THEN <<>>
    ELSE IF VersionMatchEnd(s, p) > 0
         THEN SubSeq(s, VersionMatchEnd(s, p) + 1, Len(s))
         ELSE <<s[p]>> \o SubFirstVersion(s, p + 1)

\* Variant of excise_version_from_column_name: only the first version token
\* is removed.
excise_first_version_only(column_name) == SubFirstVersion(column_name, 1)

excise_version_from_column_name(column_name) == SubVersion(column_name, 1)

\* r'_(\d+)_\1' at position p, followed by (?!\d) when lookahead is TRUE:
\* group 1, or <<>> when there is no match at p.  \d+ is followed by '_', so
\* it can only be the maximal run of digits.
PairGroupAt(s, p, lookahead) ==
    IF p + 1 <= Len(s) /\ s[p] = "_" /\ IsDigitChar(s[p + 1])
    THEN LET q == DigitRunEnd(s, p + 1)
             n == q - p
             g == SubSeq(s, p + 1, q)
         IN IF /\ q + 1 + n <= Len(s)
               /\ s[q + 1] = "_"
               /\ SubSeq(s, q + 2, q + 1 + n) = g
               /\ (lookahead =>
                      (q + 2 + n > Len(s) \/ ~IsDigitChar(s[q + 2 + n])))
            THEN g
            ELSE <<>>
    ELSE <<>>

\* r'_v\d+_(\d+)_\1(?!\d)' with re.IGNORECASE at position p: group 1 or <<>>.
VersionPairGroupAt(s, p) ==
    IF /\ p + 2 <= Len(s)
       /\ s[p] = "_"
       /\ s[p + 1] \in {"v", "V"}
       /\ IsDigitChar(s[p + 2])
    THEN PairGroupAt(s, DigitRunEnd(s, p + 2) + 1, TRUE)
    ELSE <<>>

RECURSIVE SearchVersionPair(_, _)
SearchVersionPair(s, p) ==
    IF p > Len(s) THEN <<>>
    ELSE LET g == VersionPairGroupAt(s, p)
         IN IF g # <<>> THEN g ELSE SearchVersionPair(s, p + 1)

RECURSIVE SearchPair(_, _, _)
\* The group of the leftmost match: re.search(...).group(1) and findall(...)[0].
SearchPair(s, p, lookahead) ==
    IF p > Len(s) THEN <<>>
    ELSE LET g == PairGroupAt(s, p, lookahead)
         IN IF g # <<>> THEN g ELSE SearchPair(s, p + 1, lookahead)

RECURSIVE LastUnderscore(_, _)
LastUnderscore(s, i) ==
    IF i = 0 THEN 0 ELSE IF s[i] = "_" THEN i ELSE LastUnderscore(s, i - 1)

\* r'_(\d+)$': group 1 or <<>>.
TrailingNumber(s) ==
    LET u == LastUnderscore(s, Len(s))
    IN IF u > 0 /\ isdigit(SubSeq(s, u + 1, Len(s)))
       THEN SubSeq(s, u + 1, Len(s))
       ELSE <<>>

extract_loop_number(name) ==
    LET case1 == SearchVersionPair(name, 1)
        cleaned_var == excise_version_from_column_name(name)
        matches == SearchPair(cleaned_var, 1, TRUE)
    IN IF case1 # <<>> THEN int(case1)
       ELSE IF matches # <<>> THEN int(matches)
       ELSE IF /\ SearchPair(cleaned_var, 1, FALSE) # <<>>
               /\ TrailingNumber(cleaned_var) # <<>>
            THEN int(TrailingNumber(cleaned_var))
       ELSE None

\* Variant of TokenAllowed: no rule for version tokens.
TokenAllowed_without_version_rule(token) ==
    \/ Len(token) = 0
    \/ lower(token) = <<"d">>
    \/ isdigit(token)
    \/ lower(token) \in ALLOWED_NON_CID_SUBSTRINGS

\* The test is_pure_variable applies to one token of var.split('_').
TokenAllowed(token) ==
    \/ Len(token) = 0
    \/ lower(token) = <<"d">>
    \/ isdigit(token)
    \/ (LowerChar(token[1]) = "v" /\ isdigit(Tail(token)))
    \/ lower(token) \in ALLOWED_NON_CID_SUBSTRINGS

\* Variant of is_pure_variable: one allowed token is enough.
is_pure_variable_some_token(var) ==
    LET tokens == split(var)
    IN IF lower(var) \in ALLOWED_NON_CID_VARIABLE_NAMES /\ Len(var) > 0 THEN TRUE
       ELSE IF lower(var) \in FORBIDDEN_NON_CID_VARIABLE_NAMES THEN FALSE
       ELSE \E i \in 1..Len(tokens) : TokenAllowed(tokens[i])

is_pure_variable(var) ==
    LET tokens == split(var)
    IN IF lower(var) \in ALLOWED_NON_CID_VARIABLE_NAMES /\ Len(var) > 0 THEN TRUE
       ELSE IF lower(var) \in FORBIDDEN_NON_CID_VARIABLE_NAMES THEN FALSE
       ELSE \A i \in 1..Len(tokens) : TokenAllowed(tokens[i])

\* utils.excise_substrings
RECURSIVE excise_substrings(_, _)
excise_substrings(name, substrings_to_excise) ==
    IF Len(substrings_to_excise) = 0 THEN name
    ELSE excise_substrings(replace(name, substrings_to_excise[1]),
                           Tail(substrings_to_excise))

standardize_column_case(column_name) ==
    IF column_name = Connect_ID THEN column_name ELSE lower(column_name)

-----------------------------------------------------------------------------
(* Column names of the source tables                                        *)

\* "d_123456789_1_1": a loop column
N_d_123456789_1_1 ==
    <<"d", "_", "1", "2", "3", "4", "5", "6", "7", "8", "9", "_", "1", "_",
      "1">>

\* "d_123456789_1_1_1_1": the same field and loop number, spelt with the pair twice
N_d_123456789_1_1_1_1 ==
    <<"d", "_", "1", "2", "3", "4", "5", "6", "7", "8", "9", "_", "1", "_",
      "1", "_", "1", "_", "1">>

\* "d_123456789_v2_1_1": the same field and loop number in version 2
N_d_123456789_v2_1_1 ==
    <<"d", "_", "1", "2", "3", "4", "5", "6", "7", "8", "9", "_", "v", "2",
      "_", "1", "_", "1">>

\* "d_123456789_1": a column without loop number, named like the collapsed loop column
N_d_123456789_1 ==
    <<"d", "_", "1", "2", "3", "4", "5", "6", "7", "8", "9", "_", "1">>

\* "d_899251483_v2_d_812107266_6_6": two concept IDs, the version token between them
N_d_899251483_v2_d_812107266_6_6 ==
    <<"d", "_", "8", "9", "9", "2", "5", "1", "4", "8", "3", "_", "v", "2",
      "_", "d", "_", "8", "1", "2", "1", "0", "7", "2", "6", "6", "_", "6",
      "_", "6">>

\* "D_987654321_num": a column with a substring of SUBSTRINGS_TO_FIX
N_D_987654321_num ==
    <<"D", "_", "9", "8", "7", "6", "5", "4", "3", "2", "1", "_", "n", "u",
      "m">>

\* "d_5_5": a loop number and no concept ID
N_d_5_5 ==
    <<"d", "_", "5", "_", "5">>

\* "d_5_5_5_5": the same, spelt with the pair twice
N_d_5_5_5_5 ==
    <<"d", "_", "5", "_", "5", "_", "5", "_", "5">>

\* "token": a forbidden name
N_token ==
    <<"t", "o", "k", "e", "n">>

\* "d_71558179_v2_1_1": source of a one-off rename of covid19Survey_v1_JP
N_d_71558179_v2_1_1 ==
    <<"d", "_", "7", "1", "5", "5", "8", "1", "7", "9", "_", "v", "2", "_",
      "1", "_", "1">>

\* "d_71558179_v2_2_2": source of a one-off rename of covid19Survey_v1_JP
N_d_71558179_v2_2_2 ==
    <<"d", "_", "7", "1", "5", "5", "8", "1", "7", "9", "_", "v", "2", "_",
      "2", "_", "2">>

\* "d_715581797_1_v2": target of a one-off rename of covid19Survey_v1_JP
N_d_715581797_1_v2 ==
    <<"d", "_", "7", "1", "5", "5", "8", "1", "7", "9", "7", "_", "1", "_",
      "v", "2">>

\* "d_715581797_2_v2": target of a one-off rename of covid19Survey_v1_JP
N_d_715581797_2_v2 ==
    <<"d", "_", "7", "1", "5", "5", "8", "1", "7", "9", "7", "_", "2", "_",
      "v", "2">>

\* "d_715581797_v2_1_1": a loop column that collapses to the one-off target
N_d_715581797_v2_1_1 ==
    <<"d", "_", "7", "1", "5", "5", "8", "1", "7", "9", "7", "_", "v", "2",
      "_", "1", "_", "1">>

\* "D_122887481_TUBLIG_D_232595513": source of a one-off rename of module1_v1_JP
N_D_122887481_TUBLIG_D_232595513 ==
    <<"D", "_", "1", "2", "2", "8", "8", "7", "4", "8", "1", "_", "T", "U",
      "B", "L", "I", "G", "_", "D", "_", "2", "3", "2", "5", "9", "5", "5",
      "1", "3">>

\* "D_122887481_D_206625031": source of a one-off rename of module1_v1_JP with the same target
N_D_122887481_D_206625031 ==
    <<"D", "_", "1", "2", "2", "8", "8", "7", "4", "8", "1", "_", "D", "_",
      "2", "0", "6", "6", "2", "5", "0", "3", "1">>

\* "d_122887481_d_623218391": the target of both
N_d_122887481_d_623218391 ==
    <<"d", "_", "1", "2", "2", "8", "8", "7", "4", "8", "1", "_", "d", "_",
      "6", "2", "3", "2", "1", "8", "3", "9", "1">>

\* "D_150352141_D_206625031": source of a one-off rename of module1_v2_JP
N_D_150352141_D_206625031 ==
    <<"D", "_", "1", "5", "0", "3", "5", "2", "1", "4", "1", "_", "D", "_",
      "2", "0", "6", "6", "2", "5", "0", "3", "1">>

\* "d_150352141_d_623218391": its target
N_d_150352141_d_623218391 ==
    <<"d", "_", "1", "5", "0", "3", "5", "2", "1", "4", "1", "_", "d", "_",
      "6", "2", "3", "2", "1", "8", "3", "9", "1">>

\* "D_317093647": source of the custom transforms of module1_v2_JP
N_D_317093647 ==
    <<"D", "_", "3", "1", "7", "0", "9", "3", "6", "4", "7">>

\* "D_317093647_D_623218391": target of the first custom transform
N_D_317093647_D_623218391 ==
    <<"D", "_", "3", "1", "7", "0", "9", "3", "6", "4", "7", "_", "D", "_",
      "6", "2", "3", "2", "1", "8", "3", "9", "1">>

\* "D_317093647_D_802622485": target of the second custom transform
N_D_317093647_D_802622485 ==
    <<"D", "_", "3", "1", "7", "0", "9", "3", "6", "4", "7", "_", "D", "_",
      "8", "0", "2", "6", "2", "2", "4", "8", "5">>

\* "treeJSON": a column that is neither pure nor excluded
N_treeJSON ==
    <<"t", "r", "e", "e", "J", "S", "O", "N">>

-----------------------------------------------------------------------------
(* core/constants.py: the per-table configuration                           *)

\* The tables of the model, by their dataset.table identifier: two without
\* any configuration and the three that constants.py configures.
Tables ==
    { "FlatConnect.bioSurvey_v1_JP",
      "FlatConnect.menstrualSurvey_v1_JP",
      "FlatConnect.covid19Survey_v1_JP",
      "FlatConnect.module1_v1_JP",
      "FlatConnect.module1_v2_JP" }

\* ONE_OFF_COLUMN_RENAME_MAPPINGS.get(table, []), the mappings of each table
\* in the order of the list (the entries whose columns the model's tables hold).
ONE_OFF_COLUMN_RENAME_MAPPINGS(t) ==
    IF t = "FlatConnect.covid19Survey_v1_JP"
    THEN << [source |-> N_d_71558179_v2_1_1, target |-> N_d_715581797_1_v2],
            [source |-> N_d_71558179_v2_2_2, target |-> N_d_715581797_2_v2] >>
    ELSE IF t = "FlatConnect.module1_v1_JP"
    THEN << [source |-> N_D_122887481_TUBLIG_D_232595513,
             target |-> N_d_122887481_d_623218391],
            [source |-> N_D_122887481_D_206625031,
             target |-> N_d_122887481_d_623218391] >>
    ELSE IF t = "FlatConnect.module1_v2_JP"
    THEN << [source |-> N_D_150352141_D_206625031,
             target |-> N_d_150352141_d_623218391] >>
    ELSE <<>>

\* CUSTOM_TRANSFORMS of the table, [] when it has none.
CUSTOM_TRANSFORMS(t) ==
    IF t = "FlatConnect.module1_v2_JP"
    THEN << [source |-> N_D_317093647, target |-> N_D_317093647_D_623218391],
            [source |-> N_D_317093647, target |-> N_D_317093647_D_802622485] >>
    ELSE <<>>

-----------------------------------------------------------------------------
(* Clauses of a SELECT list                                                 *)

\* `col`
BareClause(col) == [kind |-> "bare", sources |-> <<col>>, output |-> col]

\* `source AS output`
AsClause(source, output) ==
    [kind |-> "as", sources |-> <<source>>, output |-> output]

\* `COALESCE(s1, s2, ...) AS output`
CoalesceClause(sources, output) ==
    [kind |-> "coalesce", sources |-> sources, output |-> output]

\* The rendered transform_template: `CASE ... {source} ... END AS {target}`
CustomClause(source, target) ==
    [kind |-> "custom", sources |-> <<source>>, output |-> target]

Range(seq) == {seq[i] : i \in 1..Len(seq)}

\* [f(x) for x in seq]
LowerAll(seq) == [i \in 1..Len(seq) |-> lower(seq[i])]

-----------------------------------------------------------------------------
(* core/utils.py: exclusion and grouping                                    *)

\* The test of get_column_exceptions_to_exclude for one column.
IsExcluded(col) ==
    \/ lower(col) \in {lower(f) : f \in FORBIDDEN_NON_CID_VARIABLE_NAMES}
    \/ \E sub \in EXCLUDED_NON_CID_SUBSTRINGS : Contains(lower(col), lower(sub))

\* set(columns_all) - set(columns_exclude)
get_valid_column_names(cols) == {c \in Range(cols) : ~IsExcluded(c)}

\* Variant of GroupKey: the version suffix is no part of the key.
GroupKey_without_version(var) ==
    [concept_ids |->
         Range(extract_ordered_concept_ids(excise_version_from_column_name(var))),
     loop_number |-> extract_loop_number(var),
     version_suffix |-> <<>>]

\* The key (concept_ids, loop_number, version_suffix) of one name.
GroupKey(var) ==
    [concept_ids |->
         Range(extract_ordered_concept_ids(excise_version_from_column_name(var))),
     loop_number |-> extract_loop_number(var),
     version_suffix |-> extract_version_suffix(var)]

\* grouped_vars[key].append(var) on a dictionary kept in insertion order.
AppendToGroup(grouped, key, var) ==
    IF \E j \in 1..Len(grouped) : grouped[j].key = key
    THEN LET j == CHOOSE k \in 1..Len(grouped) : grouped[k].key = key
         IN [grouped EXCEPT ![j].vars = Append(@, var)]
    ELSE Append(grouped, [key |-> key, vars |-> <<var>>])

RECURSIVE GroupFrom(_, _, _)
GroupFrom(var_names, i, grouped) ==
    IF i > Len(var_names) THEN grouped
    ELSE LET key == GroupKey(var_names[i])
         IN IF key.concept_ids # {} /\ key.loop_number # None
            THEN GroupFrom(var_names, i + 1,
                           AppendToGroup(grouped, key, var_names[i]))
            ELSE GroupFrom(var_names, i + 1, grouped)

group_vars_by_cid_and_loop_num(var_names) == GroupFrom(var_names, 1, <<>>)

RECURSIVE AllLoopVars(_)
\* all_loop_vars: the members of all groups.
AllLoopVars(grouped) ==
    IF Len(grouped) = 0 THEN {}
    ELSE Range(grouped[1].vars) \cup AllLoopVars(Tail(grouped))

RECURSIVE PrefixedIds(_)
\* [f"d_{cid}" for cid in ordered_ids]
PrefixedIds(ordered_ids) ==
    IF Len(ordered_ids) = 0 THEN <<>>
    ELSE <<(<<"d", "_">> \o ordered_ids[1])>> \o PrefixedIds(Tail(ordered_ids))

\* Variant of LoopOutputName: the version suffix is left where it stood,
\* before the loop number.
LoopOutputName_version_first(first_var, loop_number, version_suffix) ==
    join(PrefixedIds(extract_ordered_concept_ids(
             excise_version_from_column_name(first_var))))
        \o version_suffix \o <<"_">> \o str(loop_number)

\* "_".join(f"d_{cid}" for cid in ordered_ids) + f"_{loop_number}{version_suffix}"
LoopOutputName(first_var, loop_number, version_suffix) ==
    join(PrefixedIds(extract_ordered_concept_ids(
             excise_version_from_column_name(first_var))))
        \o <<"_">> \o str(loop_number) \o version_suffix

\* Variant of LoopClause: only the first member is selected.
LoopClause_first_member_only(var_list, new_var_name) ==
    AsClause(var_list[1], new_var_name)

\* The clause of one group of loop variables.
LoopClause(var_list, new_var_name) ==
    IF Len(var_list) = 1
    THEN AsClause(var_list[1], new_var_name)
    ELSE CoalesceClause(var_list, new_var_name)

-----------------------------------------------------------------------------
(* core/transformations.py: the steps of process_columns                    *)

\* col_case_map.get(key): the column whose lower-case form is key (the last
\* one, as the dict comprehension keeps the last).
CaseMapGet(cols, key) ==
    cols[CHOOSE i \in 1..Len(cols) :
             /\ lower(cols[i]) = key
             /\ \A j \in (i + 1)..Len(cols) : lower(cols[j]) # key]

\* coalesce_groups[target] = sources, on a dictionary kept in insertion order.
SetGroup(groups, target, sources) ==
    IF \E j \in 1..Len(groups) : groups[j].target = target
    THEN LET j == CHOOSE k \in 1..Len(groups) : groups[k].target = target
         IN [groups EXCEPT ![j].sources = sources]
    ELSE Append(groups, [target |-> target, sources |-> sources])

\* Variant of GetGroup: the sources a target already has are forgotten.
GetGroup_overwritten(groups, target) == <<>>

\* coalesce_groups[target], [] when target is no key yet.
GetGroup(groups, target) ==
    IF \E j \in 1..Len(groups) : groups[j].target = target
    THEN groups[CHOOSE k \in 1..Len(groups) : groups[k].target = target].sources
    ELSE <<>>

RECURSIVE OneOffGroupsFrom(_, _, _, _, _)
\* The loop over the mappings that fills coalesce_groups.
OneOffGroupsFrom(mappings, i, cols, target_columns, coalesce_groups) ==
    IF i > Len(mappings) THEN coalesce_groups
    ELSE
      LET source_col_lower == lower(mappings[i].source)
          target_col_lower == lower(mappings[i].target)
          columns_lower == Range(LowerAll(cols))
          has_key == \E j \in 1..Len(coalesce_groups) :
                         coalesce_groups[j].target = target_col_lower
      IN IF source_col_lower \notin columns_lower
         THEN OneOffGroupsFrom(mappings, i + 1, cols, target_columns,
                               coalesce_groups)
         ELSE
           LET source_col == CaseMapGet(cols, source_col_lower)
           IN IF \/ target_col_lower \in target_columns
                 \/ target_col_lower \in columns_lower
              THEN
                LET initial ==
                        IF has_key THEN GetGroup(coalesce_groups, target_col_lower)
                        ELSE IF target_col_lower \in columns_lower
                        THEN <<CaseMapGet(cols, target_col_lower)>>
                        ELSE <<>>
                IN OneOffGroupsFrom(mappings, i + 1, cols, target_columns,
                       SetGroup(coalesce_groups, target_col_lower,
                                Append(initial, source_col)))
              ELSE
                OneOffGroupsFrom(mappings, i + 1, cols,
                    target_columns \cup {target_col_lower},
                    SetGroup(coalesce_groups, target_col_lower, <<source_col>>))

\* next(mapping['target'] for mapping in mappings
\*      if mapping['target'].lower() == target_col), else target_col
TargetCased(mappings, target_col) ==
    IF \E i \in 1..Len(mappings) : lower(mappings[i].target) = target_col
    THEN mappings[CHOOSE i \in 1..Len(mappings) :
                      /\ lower(mappings[i].target) = target_col
                      /\ \A j \in 1..(i - 1) :
                             lower(mappings[j].target) # target_col].target
    ELSE target_col

RECURSIVE OneOffClausesFrom(_, _, _, _)
\* The loop over coalesce_groups that emits the clauses; acc is
\* (select_clauses, processed_columns).
OneOffClausesFrom(groups, i, mappings, acc) ==
    IF i > Len(groups) THEN acc
    ELSE
      LET source_cols == groups[i].sources
          target_col_cased == TargetCased(mappings, groups[i].target)
          target_col == standardize_column_case(groups[i].target)
      IN IF target_col \in acc.processed
         THEN OneOffClausesFrom(groups, i + 1, mappings, acc)
         ELSE OneOffClausesFrom(groups, i + 1, mappings,
                [clauses |->
                     Append(acc.clauses,
                            IF Len(source_cols) = 1
                            THEN AsClause(source_cols[1], target_col_cased)
                            ELSE CoalesceClause(source_cols, target_col_cased)),
                 processed |->
                     acc.processed \cup {target_col}
                         \cup Range(LowerAll(source_cols))])

build_one_off_renames_clauses(cols, t, processed) ==
    LET mappings == ONE_OFF_COLUMN_RENAME_MAPPINGS(t)
    IN IF Len(mappings) = 0
       THEN [clauses |-> <<>>, processed |-> processed]
       ELSE OneOffClausesFrom(OneOffGroupsFrom(mappings, 1, cols, {}, <<>>), 1,
                              mappings,
                              [clauses |-> <<>>, processed |-> processed])

\* any(substring in col for substring in constants.SUBSTRINGS_TO_FIX)
HasSubstringToFix(col) ==
    \E k \in 1..Len(SUBSTRINGS_TO_FIX) : Contains(col, SUBSTRINGS_TO_FIX[k])

\* priority_key(col): how many of SUBSTRINGS_TO_FIX occur in col.
priority_key(col) ==
    Cardinality({k \in 1..Len(SUBSTRINGS_TO_FIX) :
                     Contains(col, SUBSTRINGS_TO_FIX[k])})

RECURSIVE WithPriority(_, _, _)
\* The columns of cols with priority_key k, in the order of cols.
WithPriority(cols, k, i) ==
    IF i > Len(cols) THEN <<>>
    ELSE IF priority_key(cols[i]) = k
         THEN <<cols[i]>> \o WithPriority(cols, k, i + 1)
         ELSE WithPriority(cols, k, i + 1)

\* The columns left in the order of the schema.
SortedByPriorityFrom_schema_order(cols, k) == cols

RECURSIVE SortedByPriorityFrom(_, _)
\* sorted(cols, key=priority_key): Python's sort is stable.
SortedByPriorityFrom(cols, k) ==
    IF k > Len(SUBSTRINGS_TO_FIX) THEN <<>>
    ELSE WithPriority(cols, k, 1) \o SortedByPriorityFrom(cols, k + 1)

\* column_groups[new_col].append(col), on a dictionary kept in insertion order.
AppendToColumnGroup(groups, new_col, col) ==
    IF \E j \in 1..Len(groups) : groups[j].new_col = new_col
    THEN LET j == CHOOSE k \in 1..Len(groups) : groups[k].new_col = new_col
         IN [groups EXCEPT ![j].cols = Append(@, col)]
    ELSE Append(groups, [new_col |-> new_col, cols |-> <<col>>])

RECURSIVE ColumnGroupsFrom(_, _, _, _)
\* The loop that groups the unprocessed columns by their name after
\* substring removal.
ColumnGroupsFrom(cols, i, processed, groups) ==
    IF i > Len(cols) THEN groups
    ELSE IF lower(cols[i]) \in processed
         THEN ColumnGroupsFrom(cols, i + 1, processed, groups)
         ELSE ColumnGroupsFrom(cols, i + 1, processed,
                  AppendToColumnGroup(groups,
                      standardize_column_case(
                          excise_substrings(cols[i], SUBSTRINGS_TO_FIX)),
                      cols[i]))

RECURSIVE SubstringClausesFrom(_, _, _)
\* The loop over column_groups that emits the clauses.
SubstringClausesFrom(groups, i, acc) ==
    IF i > Len(groups) THEN acc
    ELSE
      LET new_col == groups[i].new_col
          cols == groups[i].cols
      IN IF lower(new_col) \in acc.processed
         THEN SubstringClausesFrom(groups, i + 1, acc)
         ELSE SubstringClausesFrom(groups, i + 1,
                [clauses |->
                     Append(acc.clauses,
                            IF Len(cols) = 1
                            THEN IF cols[1] # new_col
                                 THEN AsClause(cols[1], new_col)
                                 ELSE BareClause(cols[1])
                            ELSE CoalesceClause(SortedByPriorityFrom(cols, 0),
                                                new_col)),
                 processed |->
                     acc.processed \cup {lower(new_col)}
                         \cup Range(LowerAll(cols))])

build_substring_removal_clauses(cols, processed) ==
    IF \A i \in 1..Len(cols) :
           lower(cols[i]) \in processed \/ ~HasSubstringToFix(cols[i])
    THEN [clauses |-> <<>>, processed |-> processed]
    ELSE SubstringClausesFrom(ColumnGroupsFrom(cols, 1, processed, <<>>), 1,
                              [clauses |-> <<>>, processed |-> processed])

\* Variant of TargetClaimed: no target is ever taken as claimed.
TargetClaimed_never(target_column, processed) == FALSE

\* `if target_column.lower() in processed_columns`: the custom transform
\* would create a duplicate.
TargetClaimed(target_column, processed) == lower(target_column) \in processed

RECURSIVE CustomClausesFrom(_, _, _)
\* The loop over the rendered expressions; the target column is the name
\* after the expression's final AS.
CustomClausesFrom(transforms, i, acc) ==
    IF i > Len(transforms) THEN acc
    ELSE IF TargetClaimed(transforms[i].target, acc.processed)
         THEN CustomClausesFrom(transforms, i + 1, acc)
         ELSE CustomClausesFrom(transforms, i + 1,
                [clauses |->
                     Append(acc.clauses,
                            CustomClause(transforms[i].source,
                                         transforms[i].target)),
                 processed |->
                     acc.processed \cup {lower(transforms[i].target)}])

build_custom_transform_clauses(t, processed) ==
    CustomClausesFrom(CUSTOM_TRANSFORMS(t), 1,
                      [clauses |-> <<>>, processed |-> processed])

RECURSIVE Remaining(_, _, _)
\* [col for col in cols if col.lower() not in processed]
Remaining(cols, i, processed) ==
    IF i > Len(cols) THEN <<>>
    ELSE IF lower(cols[i]) \notin processed
         THEN <<cols[i]>> \o Remaining(cols, i + 1, processed)
         ELSE Remaining(cols, i + 1, processed)

RECURSIVE PureOnes(_, _)
\* [col for col in cols if utils.is_pure_variable(col)]
PureOnes(cols, i) ==
    IF i > Len(cols) THEN <<>>
    ELSE IF is_pure_variable(cols[i])
         THEN <<cols[i]>> \o PureOnes(cols, i + 1)
         ELSE PureOnes(cols, i + 1)

RECURSIVE NotIn(_, _, _)
\* [var for var in vars if var not in excluded]
NotIn(cols, i, excluded) ==
    IF i > Len(cols) THEN <<>>
    ELSE IF cols[i] \notin excluded
         THEN <<cols[i]>> \o NotIn(cols, i + 1, excluded)
         ELSE NotIn(cols, i + 1, excluded)

\* Variant of NameClaimed: no name is ever taken as claimed.
NameClaimed_never(new_var_name, processed) == FALSE

\* `if new_var_name.lower() in processed_columns`: the output name would
\* create a duplicate.
NameClaimed(new_var_name, processed) == lower(new_var_name) \in processed

RECURSIVE LoopClausesFrom(_, _, _)
\* The loop over grouped_loop_vars that emits the clauses.
LoopClausesFrom(grouped, i, acc) ==
    IF i > Len(grouped) THEN acc
    ELSE
      LET var_list == grouped[i].vars
          new_var_name ==
              standardize_column_case(
                  excise_substrings(
                      LoopOutputName(var_list[1], grouped[i].key.loop_number,
                                     grouped[i].key.version_suffix),
                      SUBSTRINGS_TO_FIX))
      IN IF NameClaimed(new_var_name, acc.processed)
         THEN LoopClausesFrom(grouped, i + 1, acc)
         ELSE LoopClausesFrom(grouped, i + 1,
                [clauses |-> Append(acc.clauses, LoopClause(var_list, new_var_name)),
                 processed |->
                     acc.processed \cup {lower(new_var_name)}
                         \cup Range(LowerAll(var_list))])

RECURSIVE NonLoopClausesFrom(_, _, _)
\* The loop over non_loop_vars that emits the clauses.
NonLoopClausesFrom(non_loop_vars, i, acc) ==
    IF i > Len(non_loop_vars) THEN acc
    ELSE
      LET var == non_loop_vars[i]
          new_var_name ==
              standardize_column_case(excise_substrings(var, SUBSTRINGS_TO_FIX))
      IN IF NameClaimed(new_var_name, acc.processed)
         THEN NonLoopClausesFrom(non_loop_vars, i + 1, acc)
         ELSE NonLoopClausesFrom(non_loop_vars, i + 1,
                [clauses |->
                     Append(acc.clauses,
                            IF var # new_var_name
                            THEN AsClause(var, new_var_name)
                            ELSE BareClause(var)),
                 processed |->
                     acc.processed \cup {lower(new_var_name), lower(var)}])

\* The columns build_loop_variable_clauses hands to the grouping: unprocessed
\* and pure.
LoopValidColumns(cols, processed) ==
    LET remaining_columns == Remaining(cols, 1, processed)
        impure == {lower(remaining_columns[i]) :
                       i \in {j \in 1..Len(remaining_columns) :
                                  ~is_pure_variable(remaining_columns[j])}}
    IN PureOnes(Remaining(remaining_columns, 1, processed \cup impure), 1)

build_loop_variable_clauses(cols, processed) ==
    LET remaining_columns == Remaining(cols, 1, processed)
        impure == {lower(remaining_columns[i]) :
                       i \in {j \in 1..Len(remaining_columns) :
                                  ~is_pure_variable(remaining_columns[j])}}
        valid == LoopValidColumns(cols, processed)
        grouped == group_vars_by_cid_and_loop_num(valid)
        non_loop_vars == NotIn(valid, 1, AllLoopVars(grouped))
    IN NonLoopClausesFrom(non_loop_vars, 1,
           LoopClausesFrom(grouped, 1,
               [clauses |-> <<>>, processed |-> processed \cup impure]))

-----------------------------------------------------------------------------
(* core/query_composition.py: compose_coalesce_loop_variable_query          *)

\* The orders in which a list built from a set can deliver its elements.
Orderings(S) ==
    {seq \in [1..Cardinality(S) -> S] :
         \A i, j \in 1..Cardinality(S) : i # j => seq[i] # seq[j]}

\* [v.lower() if v != "Connect_ID" else v for v in variables]
LowerExceptConnectId(variables) ==
    [i \in 1..Len(variables) |->
         IF variables[i] # Connect_ID THEN lower(variables[i]) ELSE variables[i]]

RECURSIVE ComposeLoopClauses(_, _)
\* One (new_var_name, clause) per group, in the order of the dictionary.
ComposeLoopClauses(grouped, i) ==
    IF i > Len(grouped) THEN <<>>
    ELSE <<LoopClause(grouped[i].vars,
                      LoopOutputName(grouped[i].vars[1],
                                     grouped[i].key.loop_number,
                                     grouped[i].key.version_suffix))>>
             \o ComposeLoopClauses(grouped, i + 1)

RECURSIVE InsertSorted(_, _)
\* The place of clause c in a list sorted by output name; equal names keep
\* their order of arrival.
InsertSorted(sorted_clauses, c) ==
    IF Len(sorted_clauses) = 0 THEN <<c>>
    ELSE IF StrLess(c.output, sorted_clauses[1].output)
         THEN <<c>> \o sorted_clauses
         ELSE <<sorted_clauses[1]>> \o InsertSorted(Tail(sorted_clauses), c)

RECURSIVE SortedByName(_, _)
\* sorted(select_clauses, key=lambda x: x[0])
SortedByName(clauses, i) ==
    IF i = 0 THEN <<>>
    ELSE InsertSorted(SortedByName(clauses, i - 1), clauses[i])

\* The clauses after the hard-coded Connect_ID of the SELECT list.
ComposeClauses(variables) ==
    LET grouped == group_vars_by_cid_and_loop_num(variables)
        non_loop_vars ==
            NotIn(variables, 1, AllLoopVars(grouped) \cup {Connect_ID})
        select ==
            ComposeLoopClauses(grouped, 1)
                \o [i \in 1..Len(non_loop_vars) |-> BareClause(non_loop_vars[i])]
    IN SortedByName(select, Len(select))

-----------------------------------------------------------------------------
(* The grammar primitives applied to one name                               *)

\* The most segments a name is built from.
MaxSegs == 3

\* Pieces of column names: a concept ID with its D_ prefix, a ten-digit
\* number with the D_ prefix, a bare nine-digit number, a repeated loop
\* number, a version token followed by a repeated loop number, single
\* numbers, a version token, tokens that are no part of the grammar, and
\* the primary key.
Segments ==
    <<  <<"D", "_", "1", "2", "3", "4", "5", "6", "7", "8", "9">>,
       <<"D", "_", "1", "2", "3", "4", "5", "6", "7", "8", "9", "0">>,
       <<"1", "2", "3", "4", "5", "6", "7", "8", "9">>,
       <<"1", "_", "1">>,
       <<"v", "2", "_", "3", "_", "3">>,
       <<"1">>,
       <<"1", "2">>,
       <<"V", "3">>,
       <<"x">>,
       <<"n", "u", "m">>,
       <<"C", "o", "n", "n", "e", "c", "t", "_", "I", "D">> >>

RECURSIVE NamesOf(_)
\* The names made of exactly n segments joined by underscores.
NamesOf(n) ==
    IF n = 1 THEN {Segments[i] : i \in 1..Len(Segments)}
    ELSE {head \o <<"_">> \o Segments[i] :
              head \in NamesOf(n - 1), i \in 1..Len(Segments)}

Names == UNION {NamesOf(n) : n \in 1..MaxSegs}

PipelineIdle ==
    /\ table = "none"
    /\ columns = <<>>
    /\ pc = "idle"
    /\ processed_columns = {}
    /\ connect_id_clause = <<>>
    /\ one_off_clauses = <<>>
    /\ substring_clauses = <<>>
    /\ custom_transform_clauses = <<>>
    /\ loop_clauses = <<>>
    /\ grouped_loop_vars = <<>>
    /\ valid_columns = <<>>
    /\ select_clauses = <<>>

\* Nothing stored, nothing submitted, nothing raised.
IoIdle ==
    /\ audit = <<>>
    /\ stored_sql = <<>>
    /\ submitted = <<>>
    /\ raised = "none"

\* No table merge is under way.
MergeIdle ==
    /\ source_tables = <<>>
    /\ destination_table = ""

\* No profiling scan is under way.
ScanIdle ==
    /\ batch_index = 0
    /\ found_columns = <<>>
    /\ batch_results = <<>>
    /\ logged_errors = <<>>

\* No table has been read.
RowsIdle ==
    /\ source_rows = <<>>
    /\ result_rows = {}

OthersIdle ==
    /\ ScanIdle
    /\ invocations = 0
    /\ variable_list = <<>>
    /\ RowsIdle

GrammarInit ==
    /\ var_name \in Names
    /\ call = "none"
    /\ result = None
    /\ PipelineIdle
    /\ IoIdle
    /\ MergeIdle
    /\ OthersIdle

Call_extract_ordered_concept_ids ==
    /\ call = "none"
    /\ call' = "extract_ordered_concept_ids"
    /\ result' = extract_ordered_concept_ids(var_name)
    /\ UNCHANGED <<var_name, pipeline_vars, io_vars, merge_vars>>
    /\ UNCHANGED other_vars

Call_extract_version_suffix ==
    /\ call = "none"
    /\ call' = "extract_version_suffix"
    /\ result' = extract_version_suffix(var_name)
    /\ UNCHANGED <<var_name, pipeline_vars, io_vars, merge_vars>>
    /\ UNCHANGED other_vars

Call_excise_version_from_column_name ==
    /\ call = "none"
    /\ call' = "excise_version_from_column_name"
    /\ result' = excise_version_from_column_name(var_name)
    /\ UNCHANGED <<var_name, pipeline_vars, io_vars, merge_vars>>
    /\ UNCHANGED other_vars

Call_extract_loop_number ==
    /\ call = "none"
    /\ call' = "extract_loop_number"
    /\ result' = extract_loop_number(var_name)
    /\ UNCHANGED <<var_name, pipeline_vars, io_vars, merge_vars>>
    /\ UNCHANGED other_vars

Call_is_pure_variable ==
    /\ call = "none"
    /\ call' = "is_pure_variable"
    /\ result' = is_pure_variable(var_name)
    /\ UNCHANGED <<var_name, pipeline_vars, io_vars, merge_vars>>
    /\ UNCHANGED other_vars

GrammarNext ==
    \/ Call_extract_ordered_concept_ids
    \/ Call_extract_version_suffix
    \/ Call_excise_version_from_column_name
    \/ Call_extract_loop_number
    \/ Call_is_pure_variable

SpecGrammar == GrammarInit /\ [][GrammarNext]_vars

-----------------------------------------------------------------------------
(* core/transformations.py: merge_table_versions                            *)

\* "d_317093647": the column D_317093647 as another table version spells it
N_d_317093647 ==
    <<"d", "_", "3", "1", "7", "0", "9", "3", "6", "4", "7">>

\* sorted(names): by code point
RECURSIVE sorted(_)
sorted(names) ==
    IF names = {} THEN <<>>
    ELSE LET first == CHOOSE x \in names :
                          \A y \in names \ {x} : StrLess(x, y)
         IN <<first>> \o sorted(names \ {first})

\* utils.get_valid_column_names for each source table, by position: the
\* columns an exclusion rule names are taken out.
table_columns(tables) ==
    [i \in 1..Len(tables) |-> {c \in tables[i] : ~IsExcluded(c)}]

\* Variant of MergeInputsInvalid: the destination is not looked at.
MergeInputsInvalid_without_destination(destination, tables) ==
    Len(tables) < 2

\* `if not destination_table or not source_tables or len(source_tables) < 2`
MergeInputsInvalid(destination, tables) ==
    destination = "" \/ Len(tables) = 0 \/ Len(tables) < 2

\* `if not cols` for some source table
SomeTableWithoutColumns(tables) ==
    \E i \in 1..Len(tables) : table_columns(tables)[i] = {}

\* case_maps[alias].keys()
LowerNames(cols) == {lower(c) : c \in cols}

\* case_maps[alias][col_lower]
case_map(cols, col_lower) == CHOOSE c \in cols : lower(c) = col_lower

RECURSIVE CommonColumnsFrom(_, _, _)
\* The loop that intersects the tables' names; an empty set is taken for
\* "first table".
CommonColumnsFrom(cols, i, common) ==
    IF i > Len(cols) THEN common
    ELSE CommonColumnsFrom(cols, i + 1,
             IF common = {} THEN LowerNames(cols[i])
             ELSE common \cap LowerNames(cols[i]))

common_columns_lower(cols) == CommonColumnsFrom(cols, 1, {})

\* case_maps[alias][col_lower] raises KeyError: a name taken for common is
\* no column of some table.
MergeKeyError(cols) ==
    \E col_lower \in common_columns_lower(cols) :
        \E i \in 1..Len(cols) : col_lower \notin LowerNames(cols[i])

\* COALESCE(v1.c1, v2.c2, ...) AS output, one per common column, the
\* columns in the order of sorted(common_columns_lower).
MergeCommonClauses(cols) ==
    LET names == sorted(common_columns_lower(cols))
    IN [k \in 1..Len(names) |->
            CoalesceClause(
                [i \in 1..Len(cols) |-> <<i, case_map(cols[i], names[k])>>],
                IF names[k] = lower(Connect_ID) THEN Connect_ID ELSE names[k])]

RECURSIVE MergeUniqueFrom(_, _, _)
\* The loop over the aliases that emits `alias.col AS output` for the
\* columns no earlier clause has processed.
MergeUniqueFrom(cols, i, acc) ==
    IF i > Len(cols) THEN acc
    ELSE
      LET unique_cols == {c \in cols[i] : lower(c) \notin acc.processed}
          names == sorted(unique_cols)
      IN MergeUniqueFrom(cols, i + 1,
             [clauses |->
                  acc.clauses \o
                      [k \in 1..Len(names) |->
                           AsClause(<<i, names[k]>>,
                                    IF names[k] = Connect_ID THEN Connect_ID
                                    ELSE lower(names[k]))],
              processed |-> acc.processed \cup LowerNames(unique_cols)])

\* select_clauses of merge_table_versions (the comment lines are no clauses).
MergeSelectClauses(cols) ==
    MergeUniqueFrom(cols, 1,
        [clauses |-> MergeCommonClauses(cols),
         processed |-> common_columns_lower(cols)]).clauses

\* FROM the last table, FULL OUTER JOIN the others from the last but one
\* down to the first, each ON Connect_ID.
JoinOrder(n) == [k \in 1..n |-> n + 1 - k]

-----------------------------------------------------------------------------
(* core/query_composition.py: create_or_replace_table_with_outer_join       *)

\* set.intersection(*table_columns.values())
common_columns(cols) ==
    {c \in UNION Range(cols) : \A i \in 1..Len(cols) : c \in cols[i]}

\* alias_order = aliases[::-1]
alias_order(n) == [k \in 1..n |-> n + 1 - k]

\* COALESCE(vN.c, ..., v1.c) AS c, one per common column.
OuterJoinCommonClauses(cols) ==
    LET names == sorted(common_columns(cols))
        order == alias_order(Len(cols))
    IN [k \in 1..Len(names) |->
            CoalesceClause([j \in 1..Len(order) |-> <<order[j], names[k]>>],
                           names[k])]

RECURSIVE OuterJoinUniqueFrom(_, _)
\* `alias.col` for the columns of each table that are not common.
OuterJoinUniqueFrom(cols, i) ==
    IF i > Len(cols) THEN <<>>
    ELSE LET names == sorted(cols[i] \ common_columns(cols))
         IN [k \in 1..Len(names) |->
                 [kind |-> "bare", sources |-> << <<i, names[k]>> >>,
                  output |-> names[k]]]
                \o OuterJoinUniqueFrom(cols, i + 1)

OuterJoinSelectClauses(cols) ==
    OuterJoinCommonClauses(cols) \o OuterJoinUniqueFrom(cols, 1)

-----------------------------------------------------------------------------
(* One invocation on a list of source tables                                *)

\* The most source tables a merge is given.
MaxTables == 3

\* The columns a table version of the model can have beside a forbidden one.
MergeColumnPool == {Connect_ID, N_D_317093647, N_d_317093647}

\* The schemas of the table versions: the sets of columns of the pool (the
\* warehouse keeps column names distinct, also when compared without case),
\* and two with the forbidden column token, alone and beside the key.
MergeSchemas ==
    {S \in SUBSET MergeColumnPool :
         \A a, b \in S : a # b => lower(a) # lower(b)}
        \cup {{N_token}, {Connect_ID, N_token}}

\* source_tables as the callers can give it: a list (None and [] alike are
\* the empty one) of at most MaxTables tables, each held by its schema.
SourceTableLists == UNION {[1..n -> MergeSchemas] : n \in 0..MaxTables}

\* destination_table: missing, or a fully qualified name.
DestinationTables == {"", "FlatConnect.merged_JP"}

-----------------------------------------------------------------------------
(* One invocation on one source table                                       *)

\* The most columns a source table has.
MaxCols == 3

\* The columns a table of the model can have.
ColumnPool(t) ==
    IF t = "FlatConnect.covid19Survey_v1_JP"
    THEN { Connect_ID, N_d_71558179_v2_1_1, N_d_715581797_v2_1_1,
           N_d_715581797_1_v2, N_d_123456789_1_1 }
    ELSE IF t = "FlatConnect.module1_v1_JP"
    THEN { Connect_ID, N_D_122887481_TUBLIG_D_232595513,
           N_D_122887481_D_206625031, N_d_122887481_d_623218391,
           N_d_123456789_1_1 }
    ELSE IF t = "FlatConnect.module1_v2_JP"
    THEN { Connect_ID, N_D_317093647, N_D_317093647_D_623218391,
           N_D_150352141_D_206625031, N_D_987654321_num }
    ELSE IF t = "FlatConnect.menstrualSurvey_v1_JP"
    THEN { Connect_ID, N_d_123456789_1_1, N_D_987654321_num, N_d_5_5,
           N_d_5_5_5_5, N_token, N_treeJSON }
    ELSE { Connect_ID, N_d_123456789_1_1, N_d_123456789_1_1_1_1,
           N_d_123456789_v2_1_1, N_d_123456789_1,
           N_d_899251483_v2_d_812107266_6_6 }

\* The schemas of at most MaxCols columns: the warehouse keeps column names
\* distinct, also when compared without case.
Schemas(t) ==
    UNION {{seq \in [1..n -> ColumnPool(t)] :
                \A i, j \in 1..n : i # j => lower(seq[i]) # lower(seq[j])} :
           n \in 0..MaxCols}

GrammarIdle ==
    /\ var_name = <<>>
    /\ call = "none"
    /\ result = None

\* merge_table_versions or create_or_replace_table_with_outer_join is about
\* to be called: no single source table is under way.
MergeInit ==
    /\ source_tables \in SourceTableLists
    /\ destination_table \in DestinationTables
    /\ table = "none"
    /\ columns = <<>>
    /\ pc = "merge_start"

\* process_columns or compose_coalesce_loop_variable_query is about to be
\* called on one source table.
ProcessColumnsInit ==
    /\ table \in Tables
    /\ columns \in Schemas(table)
    /\ pc = "start"
    /\ MergeIdle

Init ==
    /\ GrammarIdle
    /\ ProcessColumnsInit \/ MergeInit
    /\ processed_columns = {}
    /\ connect_id_clause = <<>>
    /\ one_off_clauses = <<>>
    /\ substring_clauses = <<>>
    /\ custom_transform_clauses = <<>>
    /\ loop_clauses = <<>>
    /\ grouped_loop_vars = <<>>
    /\ valid_columns = <<>>
    /\ select_clauses = <<>>
    /\ IoIdle
    /\ OthersIdle

\* process_columns, step 0: Connect_ID first if the table has it.
ProcessColumnsConnectId ==
    /\ pc = "start"
    /\ pc' = "step1"
    /\ IF Connect_ID \in Range(columns)
       THEN /\ connect_id_clause' = <<BareClause(Connect_ID)>>
            /\ processed_columns' = {lower(Connect_ID)}
       ELSE /\ connect_id_clause' = <<>>
            /\ processed_columns' = {}
    /\ UNCHANGED <<grammar_vars, io_vars, merge_vars, table, columns, one_off_clauses,
                   substring_clauses, custom_transform_clauses, loop_clauses,
                   grouped_loop_vars, valid_columns, select_clauses>>
    /\ UNCHANGED other_vars

\* process_columns, step 1
ProcessColumnsOneOff ==
    /\ pc = "step1"
    /\ pc' = "step2"
    /\ LET r == build_one_off_renames_clauses(columns, table, processed_columns)
       IN /\ one_off_clauses' = r.clauses
          /\ processed_columns' = r.processed
    /\ UNCHANGED <<grammar_vars, io_vars, merge_vars, table, columns, connect_id_clause,
                   substring_clauses, custom_transform_clauses, loop_clauses,
                   grouped_loop_vars, valid_columns, select_clauses>>
    /\ UNCHANGED other_vars

\* process_columns, step 2
ProcessColumnsSubstring ==
    /\ pc = "step2"
    /\ pc' = "step3"
    /\ LET r == build_substring_removal_clauses(columns, processed_columns)
       IN /\ substring_clauses' = r.clauses
          /\ processed_columns' = r.processed
    /\ UNCHANGED <<grammar_vars, io_vars, merge_vars, table, columns, connect_id_clause,
                   one_off_clauses, custom_transform_clauses, loop_clauses,
                   grouped_loop_vars, valid_columns, select_clauses>>
    /\ UNCHANGED other_vars

\* process_columns, step 3
ProcessColumnsCustom ==
    /\ pc = "step3"
    /\ pc' = "step4"
    /\ LET r == build_custom_transform_clauses(table, processed_columns)
       IN /\ custom_transform_clauses' = r.clauses
          /\ processed_columns' = r.processed
    /\ UNCHANGED <<grammar_vars, io_vars, merge_vars, table, columns, connect_id_clause,
                   one_off_clauses, substring_clauses, loop_clauses,
                   grouped_loop_vars, valid_columns, select_clauses>>
    /\ UNCHANGED other_vars

\* Variant of select_parts: the primary key is appended after the steps.
select_parts_connect_id_last(connect, one_off, substring, custom, loop) ==
    one_off \o substring \o custom \o loop \o connect

\* select_parts: the clauses of the steps in their fixed order (the comment
\* lines between them are no clauses).
select_parts(connect, one_off, substring, custom, loop) ==
    connect \o one_off \o substring \o custom \o loop

\* format_sql_query lays the statement out; the clauses and the tables of
\* the statement are what they were.
format_sql_query(sql) == sql

\* The statement CREATE OR REPLACE TABLE destination AS SELECT select FROM from.
Statement(select, from) == [select |-> select, from |-> from]

\* Variant of save_sql_string: text already stored for the destination stays.
save_sql_string_if_absent(stored, destination, sql) ==
    IF destination \in DOMAIN stored THEN stored
    ELSE [d \in DOMAIN stored \cup {destination} |->
              IF d = destination THEN sql ELSE stored[d]]

\* save_sql_string(sql, path): blob.upload_from_string(sql), or open(path,
\* "w"), at the path made of the destination table's name. Both replace
\* what the path held.
save_sql_string(stored, destination, sql) ==
    [d \in DOMAIN stored \cup {destination} |->
         IF d = destination THEN sql ELSE stored[d]]

\* Variant of AfterSave: a failed save is logged and the invocation goes on.
AfterSave_swallowed(saved, on_success) == on_success

\* Where the invocation stands after save_sql_string: `raise e` ends it when
\* the save failed.
AfterSave(saved, on_success) == IF saved THEN on_success ELSE "failed"

\* The outcomes of client.query(sql) followed by query_job.result().
QueryOutcomes == {"done", "query_raises", "result_raises"}

\* process_columns, step 4, and the SELECT list put together from the steps.
ProcessColumnsLoop ==
    /\ pc = "step4"
    /\ pc' = "rendered"
    /\ LET r == build_loop_variable_clauses(columns, processed_columns)
       IN /\ loop_clauses' = r.clauses
          /\ processed_columns' = r.processed
          /\ select_clauses' =
                 select_parts(connect_id_clause, one_off_clauses,
                              substring_clauses, custom_transform_clauses,
                              r.clauses)
    /\ valid_columns' = LoopValidColumns(columns, processed_columns)
    /\ grouped_loop_vars' = group_vars_by_cid_and_loop_num(valid_columns')
    /\ UNCHANGED <<grammar_vars, io_vars, merge_vars, table, columns, connect_id_clause,
                   one_off_clauses, substring_clauses, custom_transform_clauses>>
    /\ UNCHANGED other_vars

\* The statement process_columns has built, formatted.
ProcessColumnsSql == format_sql_query(Statement(select_clauses, table))

\* process_columns: the statement is saved for audit, or the save raises.
ProcessColumnsSave ==
    /\ pc = "rendered"
    /\ \E saved \in BOOLEAN :
         /\ pc' = AfterSave(saved, "saved")
         /\ audit' = IF saved THEN Append(audit, ProcessColumnsSql) ELSE audit
         /\ stored_sql' =
                IF saved
                THEN save_sql_string(stored_sql, destination_table, ProcessColumnsSql)
                ELSE stored_sql
         /\ raised' = IF saved THEN raised ELSE "save"
    /\ UNCHANGED <<grammar_vars, pipeline_vars_but_pc, submitted, merge_vars>>
    /\ UNCHANGED other_vars

\* process_columns: the statement is submitted and its job awaited.
ProcessColumnsExecute ==
    /\ pc = "saved"
    /\ \E outcome \in QueryOutcomes :
         /\ submitted' = IF outcome = "query_raises" THEN submitted
                          ELSE Append(submitted, ProcessColumnsSql)
         /\ pc' = IF outcome = "done" THEN "done" ELSE "failed"
         /\ raised' = IF outcome = "done" THEN raised ELSE "execute"
    /\ UNCHANGED <<grammar_vars, pipeline_vars_but_pc, audit, stored_sql, merge_vars>>
    /\ UNCHANGED other_vars

\* compose_coalesce_loop_variable_query: the valid columns arrive in the order
\* list(set) gives them; an impure one raises ValueError.
ComposeCoalesceLoopVariableQuery ==
    /\ pc = "start"
    /\ \E order \in Orderings(get_valid_column_names(columns)) :
         LET variables == LowerExceptConnectId(order)
         IN /\ valid_columns' = variables
            /\ IF \E i \in 1..Len(variables) : ~is_pure_variable(variables[i])
               THEN /\ pc' = "compose_error"
                    /\ grouped_loop_vars' = <<>>
                    /\ select_clauses' = <<>>
               ELSE /\ pc' = "composed"
                    /\ grouped_loop_vars' =
                           group_vars_by_cid_and_loop_num(variables)
                    /\ select_clauses' =
                           <<BareClause(Connect_ID)>> \o ComposeClauses(variables)
            /\ raised' =
                   IF \E i \in 1..Len(variables) : ~is_pure_variable(variables[i])
                   THEN "ValueError" ELSE raised
    /\ UNCHANGED <<grammar_vars, audit, stored_sql, submitted, merge_vars, table, columns,
                   processed_columns, connect_id_clause, one_off_clauses,
                   substring_clauses, custom_transform_clauses, loop_clauses>>
    /\ UNCHANGED other_vars

\* The statement compose_coalesce_loop_variable_query has built.
ComposeSql == Statement(select_clauses, table)

\* compose_coalesce_loop_variable_query: the statement is saved for audit, or the save raises.
ComposeSave ==
    /\ pc = "composed"
    /\ \E saved \in BOOLEAN :
         /\ pc' = AfterSave(saved, "compose_saved")
         /\ audit' = IF saved THEN Append(audit, ComposeSql) ELSE audit
         /\ stored_sql' =
                IF saved
                THEN save_sql_string(stored_sql, destination_table, ComposeSql)
                ELSE stored_sql
         /\ raised' = IF saved THEN raised ELSE "save"
    /\ UNCHANGED <<grammar_vars, pipeline_vars_but_pc, submitted, merge_vars>>
    /\ UNCHANGED other_vars

\* compose_coalesce_loop_variable_query: the statement is submitted and its job awaited.
ComposeExecute ==
    /\ pc = "compose_saved"
    /\ \E outcome \in QueryOutcomes :
         /\ submitted' = IF outcome = "query_raises" THEN submitted
                          ELSE Append(submitted, ComposeSql)
         /\ pc' = IF outcome = "done" THEN "compose_done" ELSE "failed"
         /\ raised' = IF outcome = "done" THEN raised ELSE "execute"
    /\ UNCHANGED <<grammar_vars, pipeline_vars_but_pc, audit, stored_sql, merge_vars>>
    /\ UNCHANGED other_vars

\* merge_table_versions up to the statement: the inputs are validated, the
\* columns of every table fetched, and the SELECT list built.
MergeTableVersions ==
    /\ pc = "merge_start"
    /\ LET cols == table_columns(source_tables)
       IN IF \/ MergeInputsInvalid(destination_table, source_tables)
             \/ SomeTableWithoutColumns(source_tables)
          THEN /\ pc' = "failed"
               /\ raised' = "ValueError"
               /\ select_clauses' = <<>>
          ELSE IF MergeKeyError(cols)
          THEN /\ pc' = "failed"
               /\ raised' = "KeyError"
               /\ select_clauses' = <<>>
          ELSE /\ pc' = "merged"
               /\ raised' = raised
               /\ select_clauses' = MergeSelectClauses(cols)
    /\ UNCHANGED <<grammar_vars, merge_vars, audit, stored_sql, submitted, table, columns,
                   processed_columns, connect_id_clause, one_off_clauses,
                   substring_clauses, custom_transform_clauses, loop_clauses,
                   grouped_loop_vars, valid_columns>>
    /\ UNCHANGED other_vars

\* The statement merge_table_versions has built, formatted.
MergeSql ==
    format_sql_query(Statement(select_clauses, JoinOrder(Len(source_tables))))

\* merge_table_versions: the statement is saved for audit, or the save raises.
MergeSave ==
    /\ pc = "merged"
    /\ \E saved \in BOOLEAN :
         /\ pc' = AfterSave(saved, "merge_saved")
         /\ audit' = IF saved THEN Append(audit, MergeSql) ELSE audit
         /\ stored_sql' =
                IF saved
                THEN save_sql_string(stored_sql, destination_table, MergeSql)
                ELSE stored_sql
         /\ raised' = IF saved THEN raised ELSE "save"
    /\ UNCHANGED <<grammar_vars, pipeline_vars_but_pc, submitted, merge_vars>>
    /\ UNCHANGED other_vars

\* merge_table_versions: the statement is submitted and its job awaited.
MergeExecute ==
    /\ pc = "merge_saved"
    /\ \E outcome \in QueryOutcomes :
         /\ submitted' = IF outcome = "query_raises" THEN submitted
                          ELSE Append(submitted, MergeSql)
         /\ pc' = IF outcome = "done" THEN "merge_done" ELSE "failed"
         /\ raised' = IF outcome = "done" THEN raised ELSE "execute"
    /\ UNCHANGED <<grammar_vars, pipeline_vars_but_pc, audit, stored_sql, merge_vars>>
    /\ UNCHANGED other_vars

\* create_or_replace_table_with_outer_join up to the statement.
CreateOrReplaceTableWithOuterJoin ==
    /\ pc = "merge_start"
    /\ IF \/ MergeInputsInvalid(destination_table, source_tables)
          \/ SomeTableWithoutColumns(source_tables)
       THEN /\ pc' = "failed"
            /\ raised' = "ValueError"
            /\ select_clauses' = <<>>
       ELSE /\ pc' = "joined"
            /\ raised' = raised
            /\ select_clauses' =
                   OuterJoinSelectClauses(table_columns(source_tables))
    /\ UNCHANGED <<grammar_vars, merge_vars, audit, stored_sql, submitted, table, columns,
                   processed_columns, connect_id_clause, one_off_clauses,
                   substring_clauses, custom_transform_clauses, loop_clauses,
                   grouped_loop_vars, valid_columns>>
    /\ UNCHANGED other_vars

\* The statement create_or_replace_table_with_outer_join has built.
OuterJoinSql == Statement(select_clauses, JoinOrder(Len(source_tables)))

\* create_or_replace_table_with_outer_join: the statement is saved for audit,
\* or the save raises.
OuterJoinSave ==
    /\ pc = "joined"
    /\ \E saved \in BOOLEAN :
         /\ pc' = AfterSave(saved, "join_saved")
         /\ audit' = IF saved THEN Append(audit, OuterJoinSql) ELSE audit
         /\ stored_sql' =
                IF saved
                THEN save_sql_string(stored_sql, destination_table, OuterJoinSql)
                ELSE stored_sql
         /\ raised' = IF saved THEN raised ELSE "save"
    /\ UNCHANGED <<grammar_vars, pipeline_vars_but_pc, submitted, merge_vars>>
    /\ UNCHANGED other_vars

\* create_or_replace_table_with_outer_join: the statement is submitted and
\* its job awaited.
OuterJoinExecute ==
    /\ pc = "join_saved"
    /\ \E outcome \in QueryOutcomes :
         /\ submitted' = IF outcome = "query_raises" THEN submitted
                          ELSE Append(submitted, OuterJoinSql)
         /\ pc' = IF outcome = "done" THEN "join_done" ELSE "failed"
         /\ raised' = IF outcome = "done" THEN raised ELSE "execute"
    /\ UNCHANGED <<grammar_vars, pipeline_vars_but_pc, audit, stored_sql, merge_vars>>
    /\ UNCHANGED other_vars

Next ==
    \/ ProcessColumnsConnectId
    \/ ProcessColumnsOneOff
    \/ ProcessColumnsSubstring
    \/ ProcessColumnsCustom
    \/ ProcessColumnsLoop
    \/ ProcessColumnsSave
    \/ ProcessColumnsExecute
    \/ ComposeCoalesceLoopVariableQuery
    \/ ComposeSave
    \/ ComposeExecute
    \/ MergeTableVersions
    \/ MergeSave
    \/ MergeExecute
    \/ CreateOrReplaceTableWithOuterJoin
    \/ OuterJoinSave
    \/ OuterJoinExecute

Spec == Init /\ [][Next]_vars

-----------------------------------------------------------------------------
(* Properties of the grammar primitives (checked under SpecGrammar)         *)

IsLetter(c) ==
    \/ \E i \in 1..Len(UpperCase) : UpperCase[i] = c
    \/ \E i \in 1..Len(LowerCase) : LowerCase[i] = c

\* A version token v<digits>, in either case.
IsVersionToken(token) ==
    Len(token) >= 2 /\ token[1] \in {"v", "V"} /\ isdigit(Tail(token))

\* The positions, from the second token on, of the version tokens of a name.
VersionTokenPositions(name) ==
    {i \in 2..Len(split(name)) : IsVersionToken(split(name)[i])}

RECURSIVE NineDigitTokensAfterD(_, _)
\* The all-digit tokens of exactly CidLen digits that directly follow a d/D
\* token, left to right.
NineDigitTokensAfterD(tokens, i) ==
    IF i >= Len(tokens) THEN <<>>
    ELSE IF /\ lower(tokens[i]) = <<"d">>
            /\ isdigit(tokens[i + 1])
            /\ Len(tokens[i + 1]) = CidLen
         THEN <<tokens[i + 1]>> \o NineDigitTokensAfterD(tokens, i + 1)
         ELSE NineDigitTokensAfterD(tokens, i + 1)

\* C5: extract_ordered_concept_ids returns exactly the nine-digit tokens that
\* directly follow a d/D token, in order and with duplicates; a D_-prefixed
\* number of another length contributes nothing.
C5_OnlyNineDigitTokens ==
    call = "extract_ordered_concept_ids" =>
        result = NineDigitTokensAfterD(split(var_name), 1)

\* The loop numbers N of the occurrences of _N_N not followed by a digit.
PairNumbers(s) ==
    {int(PairGroupAt(s, p, TRUE)) :
        p \in {q \in 1..Len(s) : PairGroupAt(s, q, TRUE) # <<>>}}

\* C6: extract_loop_number returns N only if the version-stripped name
\* contains _N_N not followed by a digit, and None for a name without any
\* such pattern.
C6_LoopNumberOnlyFromPair ==
    call = "extract_loop_number" =>
        LET stripped == excise_version_from_column_name(var_name)
        IN /\ result # None => result \in PairNumbers(stripped)
           /\ PairNumbers(stripped) = {} => result = None

\* C7: in a name with several different pairs _N_N, extract_loop_number
\* returns the N of the leftmost pair, also when a later pair directly
\* follows a version token.
C7_LeftmostPairGoverns ==
    call = "extract_loop_number" =>
        LET stripped == excise_version_from_column_name(var_name)
        IN Cardinality(PairNumbers(stripped)) >= 2 =>
               result = int(SearchPair(stripped, 1, TRUE))

\* C8: version stripping is idempotent: stripping a stripped name changes
\* nothing.
C8_ExciseIdempotent ==
    call = "excise_version_from_column_name" =>
        excise_version_from_column_name(result) = result

\* A name with two adjacent version tokens has been stripped.
C8_Witness ==
    /\ call = "excise_version_from_column_name"
    /\ \E i \in VersionTokenPositions(var_name) :
           i + 1 \in VersionTokenPositions(var_name)
    /\ result # var_name

\* The suffix _v<digits>, in lower case, of the first version token of a
\* name that is not its first token; empty when there is none.
FirstVersionSuffix(name) ==
    IF VersionTokenPositions(name) = {} THEN <<>>
    ELSE LET i == CHOOSE j \in VersionTokenPositions(name) :
                      \A k \in VersionTokenPositions(name) : j <= k
         IN <<"_", "v">> \o Tail(split(name)[i])

RECURSIVE DropVersionTokens(_, _)
\* The tokens of a name without the version tokens that follow an underscore.
DropVersionTokens(tokens, i) ==
    IF i > Len(tokens) THEN <<>>
    ELSE IF i >= 2 /\ IsVersionToken(tokens[i])
         THEN DropVersionTokens(tokens, i + 1)
         ELSE <<tokens[i]>> \o DropVersionTokens(tokens, i + 1)

\* C9 as stated: excise_version_from_column_name removes exactly the first
\* version token, the one extract_version_suffix identifies, and nothing else.
C9_RemovesOnlyFirstVersion ==
    /\ call = "excise_version_from_column_name" =>
           result = SubFirstVersion(var_name, 1)
    /\ call = "extract_version_suffix" => result = FirstVersionSuffix(var_name)

\* C9 as amended: excise_version_from_column_name removes every version token
\* that follows an underscore, each with the underscore before it, and keeps
\* every other character; extract_version_suffix returns _v<digits>, in lower
\* case, of the first of these tokens.
C9_RemovesEveryVersion ==
    /\ call = "excise_version_from_column_name" =>
           result = join(DropVersionTokens(split(var_name), 1))
    /\ call = "extract_version_suffix" => result = FirstVersionSuffix(var_name)

\* The suffix of a name with two version tokens, the first in upper case,
\* has been extracted.
C9_Witness ==
    /\ call = "extract_version_suffix"
    /\ Cardinality(VersionTokenPositions(var_name)) >= 2
    /\ result = <<"_", "v", "3">>
    /\ ~Contains(var_name, result)

\* Every token is d/D, a number or a version token.
OnlyGrammarTokens(name) ==
    \A i \in 1..Len(split(name)) :
        LET token == split(name)[i]
        IN lower(token) = <<"d">> \/ isdigit(token) \/ IsVersionToken(token)

\* Some token is made of letters only and is neither d/D nor one of the
\* allowed non-concept-ID substrings.
HasForeignAlphabeticToken(name) ==
    \E i \in 1..Len(split(name)) :
        LET token == split(name)[i]
        IN /\ Len(token) > 0
           /\ \A k \in 1..Len(token) : IsLetter(token[k])
           /\ lower(token) # <<"d">>
           /\ lower(token) \notin ALLOWED_NON_CID_SUBSTRINGS

\* C10 as stated: a name of d, number and version tokens is pure, and a name
\* with an alphabetic token outside the allow-list is not.
C10_PureByTokens ==
    call = "is_pure_variable" =>
        /\ OnlyGrammarTokens(var_name) => result = TRUE
        /\ HasForeignAlphabeticToken(var_name) => result = FALSE

\* C10 as amended: a name of d, number and version tokens is pure, and a name
\* with an alphabetic token outside the allow-list is not pure unless the
\* whole name is, in lower case, one of the allowed names (connect_id).
C10_PureByTokensOrAllowedName ==
    call = "is_pure_variable" =>
        /\ OnlyGrammarTokens(var_name) => result = TRUE
        /\ (/\ HasForeignAlphabeticToken(var_name)
            /\ lower(var_name) \notin ALLOWED_NON_CID_VARIABLE_NAMES)
               => result = FALSE

\* A name that starts with the primary key and goes on with a version token
\* has been found impure.
C10_Witness ==
    /\ call = "is_pure_variable"
    /\ MatchesAt(var_name, 1, Connect_ID)
    /\ VersionTokenPositions(var_name) # {}
    /\ HasForeignAlphabeticToken(var_name)
    /\ result = FALSE

-----------------------------------------------------------------------------
(* Properties of the projection (checked under Spec)                        *)

\* The clauses the loop renderer has emitted: the loop step's clauses of
\* process_columns, the SELECT list of compose_coalesce_loop_variable_query.
RendererClauses ==
    IF pc = "rendered" THEN loop_clauses
    ELSE IF pc = "composed" THEN select_clauses
    ELSE <<>>

RendererDone == pc \in {"rendered", "composed"}

\* The positions of the renderer's clauses that read exactly these sources.
ClausesOver(sources) ==
    {i \in 1..Len(RendererClauses) : RendererClauses[i].sources = sources}

InSomeGroup(v) ==
    \E i \in 1..Len(grouped_loop_vars) : v \in Range(grouped_loop_vars[i].vars)

InSameGroup(a, b) ==
    \E i \in 1..Len(grouped_loop_vars) :
        /\ a \in Range(grouped_loop_vars[i].vars)
        /\ b \in Range(grouped_loop_vars[i].vars)

\* The columns the renderer passes through one by one.
NonLoopColumns ==
    {v \in Range(valid_columns) : ~InSomeGroup(v) /\ v # Connect_ID}

\* C1: the SELECT list built by process_columns never holds two clauses whose
\* output names are equal without regard to case.
C1_UniqueOutputNames ==
    pc = "rendered" =>
        \A i, j \in 1..Len(select_clauses) :
            i # j => lower(select_clauses[i].output)
                         # lower(select_clauses[j].output)

\* process_columns has built a SELECT list of several clauses and left out a
\* column whose output name another clause already carries.
C1_Witness ==
    /\ pc = "rendered"
    /\ Len(select_clauses) >= 2
    /\ \E v \in NonLoopColumns :
           /\ ClausesOver(<<v>>) = {}
           /\ \E i \in 1..Len(select_clauses) :
                  lower(select_clauses[i].output) = lower(v)

\* The clause of a group is the one the renderer owes it: member AS output
\* for one member, COALESCE over all members AS output for several.
IsGroupClause(c, var_list) ==
    /\ c.sources = var_list
    /\ c.kind = (IF Len(var_list) = 1 THEN "as" ELSE "coalesce")

\* The primary key is passed through unmodified when the renderer has it.
ConnectIdPassedThrough ==
    (pc = "composed" \/ Connect_ID \in Range(columns)) =>
        \E i \in 1..Len(select_clauses) :
            select_clauses[i] = BareClause(Connect_ID)

\* The output name of a group or of a column is carried or read by a clause
\* over other sources, or is the name of a column the renderer did not get.
NameTakenElsewhere(name, sources) ==
    \/ \E i \in 1..Len(select_clauses) :
           /\ select_clauses[i].sources # sources
           /\ \/ lower(select_clauses[i].output) = lower(name)
              \/ \E k \in 1..Len(select_clauses[i].sources) :
                     lower(select_clauses[i].sources[k]) = lower(name)
    \/ \E c \in Range(columns) \ Range(valid_columns) : lower(c) = lower(name)

\* The name the loop step of process_columns gives a group.
GroupOutputName(g) ==
    standardize_column_case(
        excise_substrings(
            LoopOutputName(g.vars[1], g.key.loop_number, g.key.version_suffix),
            SUBSTRINGS_TO_FIX))

\* C2 as stated: in both renderers every group yields exactly one clause, of
\* the form its size asks for; Connect_ID is passed through unmodified and
\* every column outside the groups is passed through by a clause of its own.
C2_EveryGroupOneClause ==
    RendererDone =>
        /\ \A i \in 1..Len(grouped_loop_vars) :
               LET var_list == grouped_loop_vars[i].vars
               IN /\ Cardinality(ClausesOver(var_list)) = 1
                  /\ \A k \in ClausesOver(var_list) :
                         IsGroupClause(RendererClauses[k], var_list)
        /\ ConnectIdPassedThrough
        /\ \A v \in NonLoopColumns :
               /\ Cardinality(ClausesOver(<<v>>)) = 1
               /\ \A k \in ClausesOver(<<v>>) :
                      RendererClauses[k].kind \in {"bare", "as"}

\* C2 as amended: compose_coalesce_loop_variable_query gives every group
\* exactly one clause and every other column a bare clause of its own; the
\* loop step of process_columns gives a group or a column at most one clause,
\* and none only when its output name is already taken; a clause of a group
\* is member AS output for one member and one COALESCE over all members for
\* several; Connect_ID is passed through unmodified.
C2_OneClauseUnlessNameTaken ==
    RendererDone =>
        /\ \A i \in 1..Len(grouped_loop_vars) :
               LET g == grouped_loop_vars[i]
               IN /\ Cardinality(ClausesOver(g.vars)) <= 1
                  /\ \A k \in ClausesOver(g.vars) :
                         IsGroupClause(RendererClauses[k], g.vars)
                  /\ ClausesOver(g.vars) = {} =>
                         /\ pc = "rendered"
                         /\ NameTakenElsewhere(GroupOutputName(g), g.vars)
        /\ ConnectIdPassedThrough
        /\ \A v \in NonLoopColumns :
               /\ Cardinality(ClausesOver(<<v>>)) <= 1
               /\ \A k \in ClausesOver(<<v>>) :
                      /\ RendererClauses[k].kind \in {"bare", "as"}
                      /\ pc = "composed" => RendererClauses[k] = BareClause(v)
               /\ ClausesOver(<<v>>) = {} =>
                      /\ pc = "rendered"
                      /\ NameTakenElsewhere(
                             standardize_column_case(
                                 excise_substrings(v, SUBSTRINGS_TO_FIX)),
                             <<v>>)

\* The loop step of process_columns has merged a group of two members into
\* one COALESCE and left out a column whose name the group's output took.
C2_Witness ==
    /\ pc = "rendered"
    /\ \E i \in 1..Len(grouped_loop_vars) :
           /\ Len(grouped_loop_vars[i].vars) = 2
           /\ \E k \in ClausesOver(grouped_loop_vars[i].vars) :
                  /\ loop_clauses[k].kind = "coalesce"
                  /\ \E v \in NonLoopColumns :
                         /\ ClausesOver(<<v>>) = {}
                         /\ lower(v) = lower(loop_clauses[k].output)

\* The set of concept IDs, the loop number and the version suffix of a name.
KeyOf(v) ==
    [concept_ids |->
         Range(extract_ordered_concept_ids(excise_version_from_column_name(v))),
     loop_number |-> extract_loop_number(v),
     version_suffix |-> extract_version_suffix(v)]

\* The key of every column the renderer got.
KeysOfValidColumns == [v \in Range(valid_columns) |-> KeyOf(v)]

\* The two names of the specification's example are rendered apart.
VersionedPairRenderedApart ==
    {N_d_123456789_1_1, N_d_123456789_v2_1_1} \subseteq Range(valid_columns) =>
        /\ ~InSameGroup(N_d_123456789_1_1, N_d_123456789_v2_1_1)
        /\ \E i, j \in 1..Len(RendererClauses) :
               /\ N_d_123456789_1_1 \in Range(RendererClauses[i].sources)
               /\ N_d_123456789_v2_1_1 \in Range(RendererClauses[j].sources)
               /\ RendererClauses[i].output # RendererClauses[j].output

\* C3 as stated: two names that have a loop number are in the same group if
\* and only if they have the same set of concept IDs, the same loop number
\* and the same version suffix; a name without a loop number is in no group;
\* d_123456789_1_1 and d_123456789_v2_1_1 are in different groups and are
\* rendered as two clauses with different output names.
C3_SameGroupIffSameKey ==
    RendererDone =>
        \A keys \in {KeysOfValidColumns} :
           /\ \A a, b \in Range(valid_columns) :
                  (keys[a].loop_number # None /\ keys[b].loop_number # None)
                      => (InSameGroup(a, b) <=> keys[a] = keys[b])
           /\ \A v \in Range(valid_columns) :
                  keys[v].loop_number = None => ~InSomeGroup(v)
           /\ VersionedPairRenderedApart

\* C3 as amended: the same for two names that have a loop number and at
\* least one concept ID; a name without a loop number or without a concept
\* ID is in no group.
C3_SameGroupIffSameKeyAmongConceptNames ==
    RendererDone =>
        \A keys \in {KeysOfValidColumns} :
           /\ \A a, b \in Range(valid_columns) :
                  (/\ keys[a].loop_number # None /\ keys[a].concept_ids # {}
                   /\ keys[b].loop_number # None /\ keys[b].concept_ids # {})
                      => (InSameGroup(a, b) <=> keys[a] = keys[b])
           /\ \A v \in Range(valid_columns) :
                  (keys[v].loop_number = None \/ keys[v].concept_ids = {})
                      => ~InSomeGroup(v)
           /\ VersionedPairRenderedApart

\* The renderer has grouped three columns of one concept ID and one loop
\* number: two without a version in one group, the versioned one alone.
C3_Witness ==
    /\ RendererDone
    /\ Len(grouped_loop_vars) = 2
    /\ InSameGroup(N_d_123456789_1_1, N_d_123456789_1_1_1_1)
    /\ InSomeGroup(N_d_123456789_v2_1_1)
    /\ ~InSameGroup(N_d_123456789_1_1, N_d_123456789_v2_1_1)

RECURSIVE IdTokens(_)
\* The tokens d, <id> of each concept ID in turn.
IdTokens(ids) ==
    IF Len(ids) = 0 THEN <<>>
    ELSE <<(<<"d">>), ids[1]>> \o IdTokens(Tail(ids))

\* The tokens of the output name of a group whose first member is first: d
\* and the ID for every concept ID in the order of first, the loop number
\* once, and the version token last when first has one.
ExpectedOutputTokens(first, loop_number) ==
    IdTokens(NineDigitTokensAfterD(DropVersionTokens(split(first), 1), 1))
        \o <<str(loop_number)>>
        \o (IF FirstVersionSuffix(first) = <<>> THEN <<>>
            ELSE <<Tail(FirstVersionSuffix(first))>>)

\* C4: the output name of every clause of a loop group is d_<id> for each
\* concept ID in the order of the group's first member, then _<loopNumber>
\* exactly once, then the version suffix as the last component.
C4_OutputNameOfGroup ==
    RendererDone =>
        \A i \in 1..Len(grouped_loop_vars) :
            \A k \in ClausesOver(grouped_loop_vars[i].vars) :
                split(RendererClauses[k].output)
                    = ExpectedOutputTokens(grouped_loop_vars[i].vars[1],
                                           extract_loop_number(
                                               grouped_loop_vars[i].vars[1]))

\* d_899251483_v2_d_812107266_6_6 has been rendered as
\* d_899251483_d_812107266_6_v2.
C4_Witness ==
    /\ RendererDone
    /\ \E k \in 1..Len(RendererClauses) :
           /\ RendererClauses[k].sources = <<N_d_899251483_v2_d_812107266_6_6>>
           /\ RendererClauses[k].output =
                  <<"d", "_", "8", "9", "9", "2", "5", "1", "4", "8", "3",
                    "_", "d", "_", "8", "1", "2", "1", "0", "7", "2", "6", "6",
                    "_", "6", "_", "v", "2">>

-----------------------------------------------------------------------------
(* Properties of process_columns as a whole (checked under Spec)            *)

\* The columns the one-off renames of the table read.
OneOffSourceNames ==
    {lower(ONE_OFF_COLUMN_RENAME_MAPPINGS(table)[i].source) :
         i \in 1..Len(ONE_OFF_COLUMN_RENAME_MAPPINGS(table))}

\* The raw column is read by the clause or is the name the clause gives.
ClauseMentions(c, col) == col \in Range(c.sources) \/ c.output = col

\* C11: in process_columns a raw column whose name is a forbidden name
\* (without regard to case) or contains an excluded substring, and that no
\* one-off rename reads, appears in no clause of the SELECT list, neither as
\* a source nor as an output.
C11_ForbiddenColumnsNeverSelected ==
    pc = "rendered" =>
        \A col \in Range(columns) :
            (IsExcluded(col) /\ lower(col) \notin OneOffSourceNames) =>
                \A i \in 1..Len(select_clauses) :
                    ~ClauseMentions(select_clauses[i], col)

\* The column is read by a one-off rename or a custom transform of the table,
\* or an exclusion rule names it.
CoveredByRule(col) ==
    \/ lower(col) \in OneOffSourceNames
    \/ \E i \in 1..Len(CUSTOM_TRANSFORMS(table)) :
           CUSTOM_TRANSFORMS(table)[i].source = col
    \/ IsExcluded(col)

\* The invocation has built its statement, or gone beyond that, without
\* raising over the columns.
StatementBuilt ==
    pc \in {"rendered", "saved", "done", "composed", "compose_saved",
            "compose_done"}

\* C12: if some column of the source table fails is_pure_variable and no
\* one-off rename, custom transform or exclusion rule covers it, the
\* processing of the whole table fails: no statement is built, no audit text
\* is saved and no statement is executed.
C12_ImpureColumnFailsTable ==
    (\E col \in Range(columns) : ~is_pure_variable(col) /\ ~CoveredByRule(col))
        => /\ ~StatementBuilt
           /\ audit = <<>>
           /\ submitted = <<>>

\* The raw columns the claim of losslessness is about: not forbidden, not
\* excluded by substring and pure.
KeptColumns ==
    {col \in Range(columns) : ~IsExcluded(col) /\ is_pure_variable(col)}

ReadBySomeClause(col) ==
    \E i \in 1..Len(select_clauses) : col \in Range(select_clauses[i].sources)

\* The columns grouped with the column by the loop step, the column alone
\* when it is in no group.
GroupMembers(col) ==
    {col} \cup UNION {Range(grouped_loop_vars[i].vars) :
                          i \in {j \in 1..Len(grouped_loop_vars) :
                                     col \in Range(grouped_loop_vars[j].vars)}}

\* The output names the loop step computes for the column: the name of its
\* group, its own standardized name when it is in no group.
ColumnOutputNames(col) ==
    IF InSomeGroup(col)
    THEN {GroupOutputName(grouped_loop_vars[i]) :
              i \in {j \in 1..Len(grouped_loop_vars) :
                         col \in Range(grouped_loop_vars[j].vars)}}
    ELSE {standardize_column_case(excise_substrings(col, SUBSTRINGS_TO_FIX))}

\* A clause that reads neither the column nor a member of its group has
\* claimed the column's own name or its computed output name, as the name it
\* gives or as a column it reads.
NameClaimedEarlier(col) ==
    \E i \in 1..Len(select_clauses) :
        /\ Range(select_clauses[i].sources) \cap GroupMembers(col) = {}
        /\ \/ lower(select_clauses[i].output) = lower(col)
           \/ \E name \in ColumnOutputNames(col) :
                  \/ lower(select_clauses[i].output) = lower(name)
                  \/ lower(name) \in Range(LowerAll(select_clauses[i].sources))

ProcessColumnsRendered == pc \in {"rendered", "saved", "done"}

\* C18: whenever the input schema holds a column named exactly Connect_ID,
\* the first clause of the SELECT list built by process_columns is the bare
\* column Connect_ID, and no later clause reads Connect_ID or gives its name,
\* in any case: it appears exactly once and is never renamed, lower-cased or
\* wrapped in COALESCE.
C18_ConnectIdFirstAndOnce ==
    (ProcessColumnsRendered /\ Connect_ID \in Range(columns)) =>
        /\ Len(select_clauses) >= 1
        /\ select_clauses[1] = BareClause(Connect_ID)
        /\ \A i \in 2..Len(select_clauses) :
               /\ Connect_ID \notin Range(select_clauses[i].sources)
               /\ lower(select_clauses[i].output) # lower(Connect_ID)

\* process_columns has built a SELECT list for a schema that holds Connect_ID
\* and two more columns which later steps renamed or merged.
C18_Witness ==
    /\ pc = "rendered"
    /\ Connect_ID \in Range(columns)
    /\ Len(columns) = 3
    /\ Len(select_clauses) >= 2
    /\ \E i \in 2..Len(select_clauses) : select_clauses[i].kind # "bare"

\* The positions of an invocation of process_columns that has not failed.
ProcessColumnsPositions ==
    {"start", "step1", "step2", "step3", "step4", "rendered", "saved", "done"}

\* C19: process_columns on a source table that has zero columns is a no-op:
\* it raises no error and submits no statement to the warehouse.
C19_ZeroColumnsNoOp ==
    (columns = <<>> /\ pc \in ProcessColumnsPositions) =>
        /\ raised = "none"
        /\ submitted = <<>>

\* The names the clauses give or read, lower-cased: what the clauses add to
\* processed_columns.
NamesClaimedBy(clauses) ==
    UNION {{lower(clauses[i].output)} \cup Range(LowerAll(clauses[i].sources)) :
               i \in 1..Len(clauses)}

\* The clause at the position is the clause of a loop group.
IsLoopGroupClause(clauses, i) ==
    \E k \in 1..Len(grouped_loop_vars) :
        clauses[i].sources = grouped_loop_vars[k].vars

\* A step of process_columns leaves the clauses of the steps before it as
\* they are.
StepKeepsEarlierClauses ==
    /\ pc \in {"step1", "step2", "step3", "step4", "rendered", "saved", "done"}
           => connect_id_clause' = connect_id_clause
    /\ pc \in {"step2", "step3", "step4", "rendered", "saved", "done"}
           => one_off_clauses' = one_off_clauses
    /\ pc \in {"step3", "step4", "rendered", "saved", "done"}
           => substring_clauses' = substring_clauses
    /\ pc \in {"step4", "rendered", "saved", "done"}
           => custom_transform_clauses' = custom_transform_clauses
    /\ pc \in {"rendered", "saved", "done"}
           => /\ loop_clauses' = loop_clauses
              /\ select_clauses' = select_clauses

\* The SELECT list is the clauses of the steps in the order Connect_ID,
\* one-off renames, substring removal, custom transforms, loop groups,
\* other columns; no clause gives a name an earlier clause gives; a custom
\* transform has its clause exactly when the steps before it and the custom
\* transforms before it had not claimed its target.
ClaimedInStepOrder ==
    ProcessColumnsRendered =>
        /\ select_clauses =
               connect_id_clause \o one_off_clauses \o substring_clauses
                   \o custom_transform_clauses \o loop_clauses
        /\ \A j \in 1..Len(select_clauses) : \A i \in 1..(j - 1) :
               lower(select_clauses[j].output) # lower(select_clauses[i].output)
        /\ \A j \in 1..Len(loop_clauses) : \A i \in 1..(j - 1) :
               IsLoopGroupClause(loop_clauses, j) =>
                   IsLoopGroupClause(loop_clauses, i)
        /\ \A k \in 1..Len(CUSTOM_TRANSFORMS(table)) :
               LET t == CUSTOM_TRANSFORMS(table)[k]
                   earlier ==
                       NamesClaimedBy(connect_id_clause \o one_off_clauses
                                          \o substring_clauses)
                           \cup {lower(CUSTOM_TRANSFORMS(table)[m].target) :
                                     m \in 1..(k - 1)}
               IN CustomClause(t.source, t.target)
                      \in Range(custom_transform_clauses)
                  <=> lower(t.target) \notin earlier

\* C20: in process_columns output names are claimed in the fixed step order
\* Connect_ID, one-off renames, substring removal, custom transforms, grammar
\* (loop groups, then the other columns): a clause of a later step whose
\* output name an earlier clause claimed is not emitted, the earlier clause
\* stays as it is, and a custom transform is emitted only if its target was
\* not yet claimed.
C20_ClaimedInStepOrder ==
    []ClaimedInStepOrder /\ [][StepKeepsEarlierClauses]_vars

\* process_columns has skipped a custom transform whose target an earlier
\* step had claimed, and emitted another one.
C20_Witness ==
    /\ pc = "rendered"
    /\ Len(custom_transform_clauses) = 1
    /\ \E k \in 1..Len(CUSTOM_TRANSFORMS(table)) :
           /\ CustomClause(CUSTOM_TRANSFORMS(table)[k].source,
                           CUSTOM_TRANSFORMS(table)[k].target)
                  \notin Range(custom_transform_clauses)
           /\ lower(CUSTOM_TRANSFORMS(table)[k].target)
                  \in NamesClaimedBy(substring_clauses)

-----------------------------------------------------------------------------
(* Properties of the audit save and of the table merge (checked under Spec) *)

\* C13: in process_columns and merge_table_versions (and the other callers
\* of save_sql_string) a statement is submitted to the warehouse only after
\* the audit save of that same statement has returned; if the audit save
\* raises, the invocation ends with the error and submits nothing.
C13_SubmittedOnlyAfterAuditSave ==
    /\ submitted # <<>> =>
           /\ audit # <<>>
           /\ submitted = audit
    /\ raised = "save" =>
           /\ submitted = <<>>
           /\ pc = "failed"

\* merge_table_versions has saved the statement of a merge of three tables
\* and then submitted that statement.
C13_Witness ==
    /\ pc = "merge_done"
    /\ Len(source_tables) = 3
    /\ Len(audit) = 1
    /\ submitted = audit
    /\ Len(audit[1].select) >= 2

\* C14: merge_table_versions (like create_or_replace_table_with_outer_join,
\* which has the same tests) fails with an error, before any audit write and
\* before any statement is executed, when fewer than two source tables are
\* given, when the destination is missing, or when some source table yields
\* zero valid columns.
C14_MergeFailsFast ==
    (/\ pc # "merge_start"
     /\ table = "none"
     /\ \/ Len(source_tables) < 2
        \/ destination_table = ""
        \/ \E i \in 1..Len(source_tables) :
               \A c \in source_tables[i] : IsExcluded(c))
        => /\ pc = "failed"
           /\ raised = "ValueError"
           /\ audit = <<>>
           /\ submitted = <<>>

\* merge_table_versions has raised ValueError over a table all of whose
\* columns an exclusion rule names, the inputs being complete otherwise.
C14_Witness ==
    /\ pc = "failed"
    /\ raised = "ValueError"
    /\ Len(source_tables) >= 2
    /\ destination_table # ""
    /\ \E i \in 1..Len(source_tables) :
           /\ source_tables[i] # {}
           /\ \A c \in source_tables[i] : IsExcluded(c)

\* The valid columns of the i-th source table of the merge.
ValidColumnsOfTable(i) == {c \in source_tables[i] : ~IsExcluded(c)}

\* The column is common to all source tables, without regard to case.
CommonToAllTables(c) ==
    \A i \in 1..Len(source_tables) :
        \E d \in ValidColumnsOfTable(i) : lower(d) = lower(c)

\* The clause is one COALESCE that reads the column from every source table.
IsCoalesceOverAllTables(clause, c) ==
    /\ clause.kind = "coalesce"
    /\ Len(clause.sources) = Len(source_tables)
    /\ {clause.sources[k][1] : k \in 1..Len(clause.sources)}
           = 1..Len(source_tables)
    /\ \A k \in 1..Len(clause.sources) :
           /\ lower(clause.sources[k][2]) = lower(c)
           /\ clause.sources[k][2]
                  \in ValidColumnsOfTable(clause.sources[k][1])

\* The clause passes the column of the i-th table through: `t_i.c AS c`.
IsPassthrough(clause, i, c) ==
    /\ clause.kind = "as"
    /\ clause.sources = << <<i, c>> >>
    /\ lower(clause.output) = lower(c)

\* merge_table_versions was given inputs it accepts.
MergeInputsAccepted ==
    /\ table = "none"
    /\ Len(source_tables) >= 2
    /\ destination_table # ""
    /\ \A i \in 1..Len(source_tables) : ValidColumnsOfTable(i) # {}

\* C15: for N >= 2 source tables the SELECT list of merge_table_versions
\* holds exactly one COALESCE clause over all N tables for each column
\* common (without regard to case) to all tables, and for each table i
\* exactly one passthrough clause `t_i.c AS c` for every column c of table i
\* that is not common to all tables; no valid column is left without a
\* clause.
C15_MergeCoversEveryColumn ==
    (MergeInputsAccepted /\ pc \in {"merged", "failed"}) =>
        /\ raised # "KeyError"
        /\ pc = "merged" =>
               \A i \in 1..Len(source_tables) :
                   \A c \in ValidColumnsOfTable(i) :
                       IF CommonToAllTables(c)
                       THEN Cardinality(
                                {k \in 1..Len(select_clauses) :
                                     IsCoalesceOverAllTables(select_clauses[k], c)})
                                = 1
                       ELSE Cardinality(
                                {k \in 1..Len(select_clauses) :
                                     IsPassthrough(select_clauses[k], i, c)})
                                = 1

\* The statement of a table merge has been built by either function.
MergeStatementBuilt ==
    pc \in {"merged", "merge_saved", "merge_done",
            "joined", "join_saved", "join_done"}

\* C16: in a table merge the arguments of every COALESCE over a common
\* column are in the order of the source tables, the first-listed table's
\* column first, so that the earliest-listed table wins; in
\* merge_table_versions and in create_or_replace_table_with_outer_join
\* alike.
C16_EarliestTableFirst ==
    MergeStatementBuilt =>
        \A k \in 1..Len(select_clauses) :
            select_clauses[k].kind = "coalesce" =>
                \A j \in 1..Len(select_clauses[k].sources) :
                    select_clauses[k].sources[j][1] = j

-----------------------------------------------------------------------------
(* Properties of the single steps of process_columns (checked under Spec)   *)

\* Step 1 of process_columns has run.
OneOffStepDone ==
    pc \in {"step2", "step3", "step4", "rendered", "saved", "done"}

\* The lower-cased targets of the one-off mappings of the table.
OneOffTargets ==
    {lower(ONE_OFF_COLUMN_RENAME_MAPPINGS(table)[i].target) :
         i \in 1..Len(ONE_OFF_COLUMN_RENAME_MAPPINGS(table))}

\* The raw columns a mapping of the table sends to the target.
MappedSources(target) ==
    {c \in Range(columns) :
         \E i \in 1..Len(ONE_OFF_COLUMN_RENAME_MAPPINGS(table)) :
             /\ lower(ONE_OFF_COLUMN_RENAME_MAPPINGS(table)[i].source) = lower(c)
             /\ lower(ONE_OFF_COLUMN_RENAME_MAPPINGS(table)[i].target) = target}

\* The raw column that already carries the target's name, if there is one.
RawTarget(target) == {c \in Range(columns) : lower(c) = target}

\* The positions of the one-off clauses that give the target's name.
OneOffClausesFor(target) ==
    {k \in 1..Len(one_off_clauses) : lower(one_off_clauses[k].output) = target}

\* C21: in build_one_off_renames_clauses a target that some mapped source
\* column of the table is sent to gets exactly one clause; when the target
\* is also a raw column or several present sources share it, the clause is
\* one COALESCE over the raw target column (if present) and every mapped
\* source column present, each once, so that no contributing source is
\* dropped or overwritten; a mapping whose source is absent contributes
\* nothing, and a target without a present source gets no clause.
C21_CollidingTargetsMerge ==
    OneOffStepDone =>
        \A target \in OneOffTargets :
            LET contributing == RawTarget(target) \cup MappedSources(target)
            IN IF MappedSources(target) = {}
               THEN OneOffClausesFor(target) = {}
               ELSE /\ Cardinality(OneOffClausesFor(target)) = 1
                    /\ \A k \in OneOffClausesFor(target) :
                           /\ Range(one_off_clauses[k].sources) = contributing
                           /\ Len(one_off_clauses[k].sources)
                                  = Cardinality(contributing)
                           /\ one_off_clauses[k].kind =
                                  (IF Cardinality(contributing) >= 2
                                   THEN "coalesce" ELSE "as")

\* Two mapped sources and the raw column of their common target were merged
\* into one COALESCE of three arguments.
C21_Witness ==
    /\ OneOffStepDone
    /\ \E k \in 1..Len(one_off_clauses) :
           /\ one_off_clauses[k].kind = "coalesce"
           /\ Len(one_off_clauses[k].sources) = 3
           /\ RawTarget(lower(one_off_clauses[k].output)) # {}
           /\ Cardinality(MappedSources(lower(one_off_clauses[k].output))) = 2

\* ---------------------------------------------------------------------------
\* The substring-removal step on columns that reduce to one name
\* ---------------------------------------------------------------------------

\* "D_987654321": the name the columns below reduce to, as a raw column
N_D_987654321 ==
    <<"D", "_", "9", "8", "7", "6", "5", "4", "3", "2", "1">>

\* "D_987654321_num_num": one configured substring, occurring twice
N_D_987654321_num_num ==
    <<"D", "_", "9", "8", "7", "6", "5", "4", "3", "2", "1", "_", "n", "u",
      "m", "_", "n", "u", "m">>

\* "state_D_987654321_num": two configured substrings, once each
N_state_D_987654321_num ==
    <<"s", "t", "a", "t", "e", "_", "D", "_", "9", "8", "7", "6", "5", "4",
      "3", "2", "1", "_", "n", "u", "m">>

\* Columns get_column_names can return for a table of versions of one
\* variable, next to a column that reduces to another name.
SubstringColumnPool ==
    {N_D_987654321, N_D_987654321_num, N_D_987654321_num_num,
     N_state_D_987654321_num, N_d_5_5}

\* The schemas: the columns in the order the warehouse returns them.
SubstringSchemas ==
    UNION {Orderings(S) : S \in {T \in SUBSET SubstringColumnPool :
                                     Cardinality(T) <= MaxCols}}

\* A call of build_substring_removal_clauses on its own, nothing claimed yet.
SubstringStepInit ==
    /\ GrammarIdle
    /\ IoIdle
    /\ MergeIdle
    /\ table = "FlatConnect.bioSurvey_v1_JP"
    /\ columns \in SubstringSchemas
    /\ pc = "substring_start"
    /\ processed_columns = {}
    /\ connect_id_clause = <<>>
    /\ one_off_clauses = <<>>
    /\ substring_clauses = <<>>
    /\ custom_transform_clauses = <<>>
    /\ loop_clauses = <<>>
    /\ grouped_loop_vars = <<>>
    /\ valid_columns = <<>>
    /\ select_clauses = <<>>
    /\ OthersIdle

\* build_substring_removal_clauses(client, fq_table, processed_columns)
BuildSubstringRemovalClauses ==
    /\ pc = "substring_start"
    /\ pc' = "substring_done"
    /\ LET r == build_substring_removal_clauses(columns, processed_columns)
       IN /\ substring_clauses' = r.clauses
          /\ processed_columns' = r.processed
    /\ UNCHANGED <<grammar_vars, io_vars, merge_vars, table, columns,
                   connect_id_clause, one_off_clauses,
                   custom_transform_clauses, loop_clauses, grouped_loop_vars,
                   valid_columns, select_clauses>>
    /\ UNCHANGED other_vars

SubstringStepNext == BuildSubstringRemovalClauses

SpecSubstringStep == SubstringStepInit /\ [][SubstringStepNext]_vars

RECURSIVE CountFrom(_, _, _)
\* The occurrences of sub that s.replace(sub, "") removes from position i on.
CountFrom(s, i, sub) ==
    IF i > Len(s) THEN 0
    ELSE IF MatchesAt(s, i, sub) THEN 1 + CountFrom(s, i + Len(sub), sub)
    ELSE CountFrom(s, i + 1, sub)

RECURSIVE RemovedFrom(_, _)
\* How many substrings excise_substrings removes from name.
RemovedFrom(name, substrings_to_excise) ==
    IF Len(substrings_to_excise) = 0 THEN 0
    ELSE CountFrom(name, 1, substrings_to_excise[1])
         + RemovedFrom(replace(name, substrings_to_excise[1]),
                       Tail(substrings_to_excise))

\* How many of the configured substrings occur in col at all.
SubstringsPresent(col) ==
    Cardinality({s \in Range(SUBSTRINGS_TO_FIX) : Contains(col, s)})

\* The place of column c in the schema.
SchemaPosition(c) == CHOOSE i \in 1..Len(columns) : columns[i] = c

SubstringStepDone == pc = "substring_done"

\* C22 as stated: in every COALESCE of the substring-removal step a column
\* from which fewer substrings were removed stands before every column from
\* which more were removed.
C22_FewestRemovedFirst ==
    SubstringStepDone =>
        \A k \in 1..Len(substring_clauses) :
            LET s == substring_clauses[k].sources
            IN \A i, j \in 1..Len(s) :
                   RemovedFrom(s[i], SUBSTRINGS_TO_FIX)
                       < RemovedFrom(s[j], SUBSTRINGS_TO_FIX) => i < j

\* C22, amended: the COALESCE arguments are ordered by the number of
\* configured substrings that occur in the column name (a substring that
\* occurs twice counts once), fewest first, and columns with the same number
\* keep the order they have in the schema.
C22_FewestPresentFirstThenSchemaOrder ==
    SubstringStepDone =>
        \A k \in 1..Len(substring_clauses) :
            LET s == substring_clauses[k].sources
            IN \A i, j \in 1..Len(s) :
                   i < j =>
                       \/ SubstringsPresent(s[i]) < SubstringsPresent(s[j])
                       \/ /\ SubstringsPresent(s[i]) = SubstringsPresent(s[j])
                          /\ SchemaPosition(s[i]) < SchemaPosition(s[j])

\* Three versions of one variable coalesced, listed in the schema with the
\* one that has two configured substrings first.
C22_Witness ==
    /\ SubstringStepDone
    /\ Len(columns) = 3
    /\ columns[1] = N_state_D_987654321_num
    /\ \E k \in 1..Len(substring_clauses) :
           /\ substring_clauses[k].kind = "coalesce"
           /\ Len(substring_clauses[k].sources) = 3
           /\ substring_clauses[k].sources[3] = N_state_D_987654321_num

\* ---------------------------------------------------------------------------
\* Properties of the loop groups
\* ---------------------------------------------------------------------------

\* C23: in the clause of a loop group with more than one member the COALESCE
\* arguments are the member column names in lexicographically sorted order,
\* whatever order the columns had in the input.
C23_LoopMembersSorted ==
    \A i \in 1..Len(select_clauses) :
        (/\ grouped_loop_vars # <<>>
         /\ IsLoopGroupClause(select_clauses, i)
         /\ Len(select_clauses[i].sources) > 1)
            => \A a, b \in 1..Len(select_clauses[i].sources) :
                   a < b => StrLess(select_clauses[i].sources[a],
                                    select_clauses[i].sources[b])

\* ---------------------------------------------------------------------------
\* is_pure_variable on names with empty tokens and forbidden names
\* ---------------------------------------------------------------------------

\* Tokens a column name can be made of: the empty token (two underscores in
\* a row, a leading or a trailing underscore), d/D, numbers, version tokens
\* and a v without digits, the allowed substrings, a forbidden name, a
\* token outside the grammar, and the primary key.
PuritySegments ==
    <<  <<>>,
        <<"D">>,
        <<"1", "2", "3", "4", "5", "6", "7", "8", "9">>,
        <<"1", "2">>,
        <<"v", "2">>,
        <<"V">>,
        <<"x">>,
        <<"n", "u", "m">>,
        <<"s", "t", "a", "t", "e">>,
        <<"u", "i", "d">>,
        <<"C", "o", "n", "n", "e", "c", "t", "_", "I", "D">> >>

RECURSIVE PurityNamesOf(_)
\* The names made of exactly n of these segments joined by underscores.
PurityNamesOf(n) ==
    IF n = 1 THEN {PuritySegments[i] : i \in 1..Len(PuritySegments)}
    ELSE {head \o <<"_">> \o PuritySegments[i] :
              head \in PurityNamesOf(n - 1), i \in 1..Len(PuritySegments)}

PurityNames == UNION {PurityNamesOf(n) : n \in 1..MaxSegs}

\* Before a call of is_pure_variable on one of these names.
PurityInit ==
    /\ var_name \in PurityNames
    /\ call = "none"
    /\ result = None
    /\ PipelineIdle
    /\ IoIdle
    /\ MergeIdle
    /\ OthersIdle

PurityNext == Call_is_pure_variable

SpecPurity == PurityInit /\ [][PurityNext]_vars

\* The token is of one of the classes a pure name is made of.
InPureTokenClass(token) ==
    \/ lower(token) = <<"d">>
    \/ isdigit(token)
    \/ IsVersionToken(token)
    \/ lower(token) \in ALLOWED_NON_CID_SUBSTRINGS

\* The non-empty tokens of the name that are of none of these classes.
TokensOutsideClasses(name) ==
    {i \in 1..Len(split(name)) :
         split(name)[i] # <<>> /\ ~InPureTokenClass(split(name)[i])}

\* The whole name is, whatever its case, in the list of forbidden names.
IsForbiddenName(name) ==
    \E f \in FORBIDDEN_NON_CID_VARIABLE_NAMES : lower(f) = lower(name)

BatchSize == 2

\* The longest column list a scan is run on.
MaxScanCols == 5

\* The columns of the scanned table, in schema order.
ScanColumnList ==
    <<Connect_ID, N_d_123456789_1_1, N_D_987654321_num, N_d_5_5, N_token,
      N_treeJSON, N_d_5_5_5_5>>

ScanSchemas ==
    {SubSeq(ScanColumnList, 1, n) :
         n \in 0..(IF MaxScanCols < Len(ScanColumnList)
                   THEN MaxScanCols ELSE Len(ScanColumnList))}

\* columns[i:i+batch_size], i counted from 0 as in the code.
Batch(cols, i) ==
    SubSeq(cols, i + 1,
           IF i + BatchSize < Len(cols) THEN i + BatchSize ELSE Len(cols))

\* [col for col in columns if col != "Connect_ID"]
WithoutConnectId(cols) == SelectSeq(cols, LAMBDA c : c # Connect_ID)

\* What one call of client.query for a batch has done.
BatchResult(i, failed, found) ==
    [start |-> i, failed |-> failed, found |-> found]

ScanInit ==
    /\ var_name = <<>>
    /\ call \in {"get_binary_columns", "get_strict_false_array_columns"}
    /\ result = None
    /\ table = "FlatConnect.bioSurvey_v1_JP"
    /\ columns \in ScanSchemas
    /\ pc = "scan_start"
    /\ processed_columns = {}
    /\ connect_id_clause = <<>>
    /\ one_off_clauses = <<>>
    /\ substring_clauses = <<>>
    /\ custom_transform_clauses = <<>>
    /\ loop_clauses = <<>>
    /\ grouped_loop_vars = <<>>
    /\ valid_columns = <<>>
    /\ select_clauses = <<>>
    /\ IoIdle
    /\ MergeIdle
    /\ ScanIdle
    /\ invocations = 0
    /\ variable_list = <<>>
    /\ RowsIdle

\* get_binary_columns up to the loop: the schema query for the STRING
\* columns, which can fail, and the early return on no columns.
GetBinaryColumnsSchema ==
    /\ pc = "scan_start"
    /\ call = "get_binary_columns"
    /\ \E query_fails \in BOOLEAN :
         IF query_fails
         THEN /\ logged_errors' =
                     logged_errors \o <<"Error in binary column detection",
                                        "Exception type">>
              /\ result' = <<>>
              /\ pc' = "scan_returned"
         ELSE /\ logged_errors' = logged_errors
              /\ result' = IF columns = <<>> THEN <<>> ELSE result
              /\ pc' = IF columns = <<>> THEN "scan_returned"
                       ELSE "scan_batches"
    /\ UNCHANGED <<var_name, call, pipeline_vars_but_pc, io_vars, merge_vars,
                   batch_index, found_columns, batch_results>>
    /\ UNCHANGED <<invocations, variable_list, row_vars>>

\* get_binary_columns, one turn of the loop over the batches: the whole
\* loop stands in one try block, so a failing batch query ends the function
\* in its except clause, which returns [].
GetBinaryColumnsBatch ==
    /\ pc = "scan_batches"
    /\ call = "get_binary_columns"
    /\ batch_index < Len(columns)
    /\ LET batch == Batch(columns, batch_index)
       IN \E query_fails \in BOOLEAN, is_binary \in SUBSET Range(batch) :
            IF query_fails
            THEN /\ batch_results' =
                        Append(batch_results,
                               BatchResult(batch_index, TRUE, <<>>))
                 /\ logged_errors' =
                        logged_errors \o <<"Error in binary column detection",
                                           "Exception type">>
                 /\ result' = <<>>
                 /\ pc' = "scan_returned"
                 /\ UNCHANGED <<batch_index, found_columns>>
            ELSE LET batch_binary ==
                         SelectSeq(batch, LAMBDA c : c \in is_binary)
                 IN /\ batch_results' =
                           Append(batch_results,
                                  BatchResult(batch_index, FALSE, batch_binary))
                    /\ found_columns' = found_columns \o batch_binary
                    /\ batch_index' = batch_index + BatchSize
                    /\ UNCHANGED <<logged_errors, result, pc>>
    /\ UNCHANGED <<var_name, call, pipeline_vars_but_pc, io_vars, merge_vars>>
    /\ UNCHANGED <<invocations, variable_list, row_vars>>

\* get_binary_columns: return binary_columns
GetBinaryColumnsReturn ==
    /\ pc = "scan_batches"
    /\ call = "get_binary_columns"
    /\ batch_index >= Len(columns)
    /\ result' = found_columns
    /\ pc' = "scan_returned"
    /\ UNCHANGED <<var_name, call, pipeline_vars_but_pc, io_vars, merge_vars,
                   scan_vars>>
    /\ UNCHANGED <<invocations, variable_list, row_vars>>

\* get_strict_false_array_columns (use_reference false) up to the loop:
\* get_column_names, which can fail, the early return on no columns, and
\* the exclusion of Connect_ID.
GetStrictFalseArrayColumnsSchema ==
    /\ pc = "scan_start"
    /\ call = "get_strict_false_array_columns"
    /\ \E get_fails \in BOOLEAN :
         IF get_fails
         THEN /\ logged_errors' =
                     Append(logged_errors,
                            "Error in optimized strict false array detection")
              /\ result' = <<>>
              /\ pc' = "scan_returned"
              /\ columns' = columns
         ELSE /\ logged_errors' = logged_errors
              /\ result' = IF columns = <<>> THEN <<>> ELSE result
              /\ pc' = IF columns = <<>> THEN "scan_returned"
                       ELSE "scan_batches"
              /\ columns' = WithoutConnectId(columns)
    /\ UNCHANGED <<var_name, call, table, processed_columns,
                   connect_id_clause, one_off_clauses, substring_clauses,
                   custom_transform_clauses, loop_clauses, grouped_loop_vars,
                   valid_columns, select_clauses, io_vars, merge_vars,
                   batch_index, found_columns, batch_results>>
    /\ UNCHANGED <<invocations, variable_list, row_vars>>

\* get_strict_false_array_columns, one turn of the loop over the batches:
\* the batch query has a try block of its own, whose except clause logs and
\* goes on. The rows of the query come in any order.
GetStrictFalseArrayColumnsBatch ==
    /\ pc = "scan_batches"
    /\ call = "get_strict_false_array_columns"
    /\ batch_index < Len(columns)
    /\ LET batch == Batch(columns, batch_index)
       IN \E query_fails \in BOOLEAN, passing \in SUBSET Range(batch) :
            IF query_fails
            THEN /\ batch_results' =
                        Append(batch_results,
                               BatchResult(batch_index, TRUE, <<>>))
                 /\ logged_errors' =
                        Append(logged_errors, "Error executing batch query")
                 /\ found_columns' = found_columns
            ELSE \E batch_results_rows \in Orderings(passing) :
                    /\ batch_results' =
                           Append(batch_results,
                                  BatchResult(batch_index, FALSE,
                                              batch_results_rows))
                    /\ found_columns' = found_columns \o batch_results_rows
                    /\ logged_errors' = logged_errors
    /\ batch_index' = batch_index + BatchSize
    /\ UNCHANGED <<var_name, call, result, pipeline_vars, io_vars, merge_vars>>
    /\ UNCHANGED <<invocations, variable_list, row_vars>>

\* get_strict_false_array_columns: return strict_false_columns
GetStrictFalseArrayColumnsReturn ==
    /\ pc = "scan_batches"
    /\ call = "get_strict_false_array_columns"
    /\ batch_index >= Len(columns)
    /\ result' = found_columns
    /\ pc' = "scan_returned"
    /\ UNCHANGED <<var_name, call, pipeline_vars_but_pc, io_vars, merge_vars,
                   scan_vars>>
    /\ UNCHANGED <<invocations, variable_list, row_vars>>

ScanNext ==
    \/ GetBinaryColumnsSchema
    \/ GetBinaryColumnsBatch
    \/ GetBinaryColumnsReturn
    \/ GetStrictFalseArrayColumnsSchema
    \/ GetStrictFalseArrayColumnsBatch
    \/ GetStrictFalseArrayColumnsReturn

SpecScan == ScanInit /\ [][ScanNext]_vars

\* Where the batches of the column list start.
BatchStarts == {j \in 0..(Len(columns) - 1) : j % BatchSize = 0}

\* The batch queries that failed.
FailedBatches == {k \in 1..Len(batch_results) : batch_results[k].failed}

\* C25: when the query of one batch of a profiling scan has failed, the
\* failure is logged, every batch has still been executed, none of them
\* twice, and the returned list has the columns found by every batch that
\* succeeded.
C25_FailedBatchSkipped ==
    (pc = "scan_returned" /\ FailedBatches # {}) =>
        /\ Len(logged_errors) >= Cardinality(FailedBatches)
        /\ \A j \in BatchStarts :
               \E k \in 1..Len(batch_results) : batch_results[k].start = j
        /\ \A k, m \in 1..Len(batch_results) :
               batch_results[k].start = batch_results[m].start => k = m
        /\ \A k \in 1..Len(batch_results) :
               ~batch_results[k].failed =>
                   \A c \in Range(batch_results[k].found) :
                       c \in Range(result)

\* ---------------------------------------------------------------------------
\* The service over several invocations: what the audit location keeps
\* ---------------------------------------------------------------------------

\* How many invocations a run of the service has.
MaxInvocations == 2

\* The destination tables the invocations are given.
ServiceDestinations == {"FlatConnect.bioSurvey_JP", "FlatConnect.merged_JP"}

\* The schemas the source table of process_columns has had over time.
ServiceSchemas ==
    { <<Connect_ID, N_d_123456789_1_1>>, <<Connect_ID, N_d_5_5>> }

\* The source tables handed to merge_table_versions.
ServiceSourceTableLists ==
    { << {Connect_ID, N_D_317093647}, {Connect_ID} >>,
      << {Connect_ID}, {Connect_ID, N_D_317093647} >> }

\* The service has been started and has served no request.
ServiceInit ==
    /\ GrammarIdle
    /\ PipelineIdle
    /\ IoIdle
    /\ MergeIdle
    /\ OthersIdle

\* No invocation is under way.
BetweenInvocations ==
    pc \in {"idle", "done", "failed", "merge_done"}

\* A request that calls process_columns(source_table, destination_table).
InvokeProcessColumns ==
    /\ BetweenInvocations
    /\ invocations < MaxInvocations
    /\ invocations' = invocations + 1
    /\ table' = "FlatConnect.bioSurvey_v1_JP"
    /\ columns' \in ServiceSchemas
    /\ destination_table' \in ServiceDestinations
    /\ source_tables' = <<>>
    /\ pc' = "start"
    /\ raised' = "none"
    /\ processed_columns' = {}
    /\ connect_id_clause' = <<>>
    /\ one_off_clauses' = <<>>
    /\ substring_clauses' = <<>>
    /\ custom_transform_clauses' = <<>>
    /\ loop_clauses' = <<>>
    /\ grouped_loop_vars' = <<>>
    /\ valid_columns' = <<>>
    /\ select_clauses' = <<>>
    /\ UNCHANGED <<grammar_vars, audit, stored_sql, submitted, scan_vars,
                   variable_list, row_vars>>

\* A request that calls merge_table_versions(source_tables, destination_table).
InvokeMergeTableVersions ==
    /\ BetweenInvocations
    /\ invocations < MaxInvocations
    /\ invocations' = invocations + 1
    /\ table' = "none"
    /\ columns' = <<>>
    /\ destination_table' \in ServiceDestinations
    /\ source_tables' \in ServiceSourceTableLists
    /\ pc' = "merge_start"
    /\ raised' = "none"
    /\ processed_columns' = {}
    /\ connect_id_clause' = <<>>
    /\ one_off_clauses' = <<>>
    /\ substring_clauses' = <<>>
    /\ custom_transform_clauses' = <<>>
    /\ loop_clauses' = <<>>
    /\ grouped_loop_vars' = <<>>
    /\ valid_columns' = <<>>
    /\ select_clauses' = <<>>
    /\ UNCHANGED <<grammar_vars, audit, stored_sql, submitted, scan_vars,
                   variable_list, row_vars>>

ServiceNext ==
    \/ InvokeProcessColumns
    \/ InvokeMergeTableVersions
    \/ ProcessColumnsConnectId
    \/ ProcessColumnsOneOff
    \/ ProcessColumnsSubstring
    \/ ProcessColumnsCustom
    \/ ProcessColumnsLoop
    \/ ProcessColumnsSave
    \/ ProcessColumnsExecute
    \/ MergeTableVersions
    \/ MergeSave
    \/ MergeExecute

SpecService == ServiceInit /\ [][ServiceNext]_vars

\* C26: text saved at the audit location of a destination table is never
\* replaced: whatever step the service takes, every destination that has
\* text keeps the text it has.
C26_AuditWriteOnce ==
    [][\A d \in DOMAIN stored_sql :
           d \in DOMAIN stored_sql' /\ stored_sql'[d] = stored_sql[d]]_vars

\* ---------------------------------------------------------------------------
\* core/variable_normalizer.py
\* ---------------------------------------------------------------------------

N_SIBCANC3O == <<"S", "I", "B", "C", "A", "N", "C", "3", "O">>

N_ABC123 == <<"A", "B", "C", "1", "2", "3">>

\* exception_map, as in the example of fix_all_variables.
exception_map ==
    [token \in {N_SIBCANC3O, N_ABC123} |->
         IF token = N_SIBCANC3O
         THEN <<"1", "2", "3", "4", "5", "6", "7", "8", "9">>
         ELSE <<"9", "8", "7", "6", "5", "4", "3", "2", "1">>]

\* fix_impure_variable(var, exception_map): each token that is a key of
\* the map becomes D_<concept id>, the names joined again.
fix_impure_variable(var, map) ==
    LET tokens == split(var)
    IN join([i \in 1..Len(tokens) |->
                 IF tokens[i] \in DOMAIN map
                 THEN <<"D", "_">> \o map[tokens[i]]
                 ELSE tokens[i]])

\* The tokens of the names that are neither allowed nor keys of the map.
missing_tokens(variables, map) ==
    {token \in UNION {Range(split(variables[i])) : i \in 1..Len(variables)} :
         /\ token # <<>>
         /\ lower(token) # <<"d">>
         /\ ~(isdigit(token) /\ Len(token) \in {CidLen, 1})
         /\ token \notin DOMAIN map}

\* re.search(r'[A-Z]{2,}', var)
HasUpperCaseRun(var) ==
    \E i \in 1..(Len(var) - 1) :
        /\ \E k \in 1..Len(UpperCase) : UpperCase[k] = var[i]
        /\ \E k \in 1..Len(UpperCase) : UpperCase[k] = var[i + 1]

\* re.search(r'[dD]_\d{9}', var)
HasConceptIdSignature(var) ==
    \E i \in 1..(Len(var) - CidLen - 1) :
        /\ var[i] \in {"d", "D"}
        /\ var[i + 1] = "_"
        /\ \A k \in 1..CidLen : IsDigitChar(var[i + 1 + k])

\* Variant of fix_all_variables: every name goes through
\* fix_impure_variable.
fix_all_variables_every_name(variables, map) ==
    IF missing_tokens(variables, map) # {}
    THEN [raised |-> "ValueError", names |-> <<>>]
    ELSE [raised |-> "none",
          names |-> [i \in 1..Len(variables) |->
                        fix_impure_variable(variables[i], map)]]

\* fix_all_variables(variable_list, exception_map): the exception it
\* raises, if any, and the list of names it returns.
fix_all_variables(variables, map) ==
    IF missing_tokens(variables, map) # {}
    THEN [raised |-> "ValueError", names |-> <<>>]
    ELSE [raised |-> "none",
          names |-> [i \in 1..Len(variables) |->
                        IF /\ HasUpperCaseRun(variables[i])
                           /\ ~HasConceptIdSignature(variables[i])
                        THEN fix_impure_variable(variables[i], map)
                        ELSE variables[i]]]

\* Tokens of the names handed to fix_all_variables: the empty token, D and
\* d, a concept ID, a single digit, a number of two digits, and the two
\* keys of the map.
NormalizerSegments ==
    <<  <<>>,
        <<"D">>,
        <<"d">>,
        <<"2", "5", "9", "0", "8", "9", "0", "0", "8">>,
        <<"1">>,
        <<"1", "2">>,
        N_SIBCANC3O,
        N_ABC123 >>

RECURSIVE NormalizerNamesOf(_)
NormalizerNamesOf(n) ==
    IF n = 1 THEN {NormalizerSegments[i] : i \in 1..Len(NormalizerSegments)}
    ELSE {head \o <<"_">> \o NormalizerSegments[i] :
              head \in NormalizerNamesOf(n - 1),
              i \in 1..Len(NormalizerSegments)}

NormalizerNames == UNION {NormalizerNamesOf(n) : n \in 1..MaxSegs}

\* The names that follow the first one in the list: "D_12", with a token
\* that has no mapping, and "D_ABC123".
NormalizerSecondNames ==
    { <<"D", "_", "1", "2">>, <<"D", "_">> \o N_ABC123 }

NormalizerInit ==
    /\ var_name = <<>>
    /\ call = "none"
    /\ result = None
    /\ PipelineIdle
    /\ IoIdle
    /\ MergeIdle
    /\ ScanIdle
    /\ invocations = 0
    /\ RowsIdle
    /\ variable_list \in
           {<<name>> : name \in NormalizerNames}
               \cup {<<name, second>> : name \in NormalizerNames,
                                        second \in NormalizerSecondNames}

Call_fix_all_variables ==
    /\ call = "none"
    /\ call' = "fix_all_variables"
    /\ result' = fix_all_variables(variable_list, exception_map)
    /\ UNCHANGED <<var_name, pipeline_vars, io_vars, merge_vars, scan_vars,
                   invocations, variable_list, row_vars>>

NormalizerNext == Call_fix_all_variables

SpecNormalizer == NormalizerInit /\ [][NormalizerNext]_vars

\* The name with every token that is a key of the map replaced by
\* D_<mapped concept id>.
WithMappedTokensReplaced(name) ==
    LET tokens == split(name)
    IN join([i \in 1..Len(tokens) |->
                 IF tokens[i] \in DOMAIN exception_map
                 THEN <<"D", "_">> \o exception_map[tokens[i]]
                 ELSE tokens[i]])

\* Some token of some name is neither D/d, a single digit, a nine-digit
\* number nor a key of the map.
SomeTokenUnmapped ==
    \E i \in 1..Len(variable_list) :
        \E k \in 1..Len(split(variable_list[i])) :
            LET token == split(variable_list[i])[k]
            IN /\ token # <<>>
               /\ token \notin {<<"D">>, <<"d">>}
               /\ ~(isdigit(token) /\ Len(token) \in {1, CidLen})
               /\ token \notin DOMAIN exception_map

\* C27: fix_all_variables raises ValueError when some token has no mapping
\* and is not allowed; when it does not raise, every token that is a key of
\* exception_map is replaced by D_<mapped concept id> in the returned names,
\* also in names that hold a D_<9 digits> concept ID, and names without such
\* tokens are returned unchanged.
C27_MappedTokensReplaced ==
    call = "fix_all_variables" =>
        IF SomeTokenUnmapped THEN result.raised = "ValueError"
        ELSE /\ result.raised = "none"
             /\ Len(result.names) = Len(variable_list)
             /\ \A i \in 1..Len(variable_list) :
                    result.names[i] =
                        WithMappedTokensReplaced(variable_list[i])

\* C28: the statement compose_coalesce_loop_variable_query builds for a
\* schema is the same whatever order get_valid_column_names delivers the
\* columns in: every other order of the same columns gives the SELECT list
\* that this run has built.
C28_SameSqlForEveryColumnOrder ==
    pc = "composed" =>
        \A order \in Orderings(get_valid_column_names(columns)) :
            <<BareClause(Connect_ID)>>
                \o ComposeClauses(LowerExceptConnectId(order))
                    = select_clauses

\* The name of the group of the column: d_<ids>_<N><version>, the configured
\* substrings removed, in lower case.
GroupNameOf(c) ==
    standardize_column_case(
        excise_substrings(
            LoopOutputName(c, GroupKey(c).loop_number,
                           GroupKey(c).version_suffix),
            SUBSTRINGS_TO_FIX))

\* The column is pure, has concept IDs and a loop number, and no clause of
\* the one-off renames or of the custom transforms reads it or gives its
\* name or the name of its group.
UnclaimedLoopColumn(c) ==
    /\ is_pure_variable(c)
    /\ GroupKey(c).loop_number # None
    /\ GroupKey(c).concept_ids # {}
    /\ \A k \in 1..Len(one_off_clauses) :
           /\ c \notin Range(one_off_clauses[k].sources)
           /\ lower(one_off_clauses[k].output) \notin
                  {lower(c), lower(GroupNameOf(c))}
    /\ \A k \in 1..Len(custom_transform_clauses) :
           /\ c \notin Range(custom_transform_clauses[k].sources)
           /\ lower(custom_transform_clauses[k].output) \notin
                  {lower(c), lower(GroupNameOf(c))}

\* The clause reads the column and gives the name of the column's group:
\* d_<ids>_<N><version>.
EmitsUnderGroupName(clause, c) ==
    /\ c \in Range(clause.sources)
    /\ clause.output =
           standardize_column_case(
               excise_substrings(
                   LoopOutputName(clause.sources[1], GroupKey(c).loop_number,
                                  GroupKey(c).version_suffix),
                   SUBSTRINGS_TO_FIX))

\* C29: in process_columns every pure column with a loop number that no
\* one-off rename or custom transform claimed is emitted under the name of
\* its group, whatever other columns the table has, and the
\* substring-removal step claims only columns that contain a configured
\* substring.
C29_LoopColumnsUnderGroupName ==
    ProcessColumnsRendered =>
        /\ \A k \in 1..Len(substring_clauses) :
               \A c \in Range(substring_clauses[k].sources) :
                   HasSubstringToFix(c)
        /\ \A i \in 1..Len(columns) :
               UnclaimedLoopColumn(columns[i]) =>
                   \E k \in 1..Len(select_clauses) :
                       EmitsUnderGroupName(select_clauses[k], columns[i])

\* ---------------------------------------------------------------------------
\* The rows of the statement merge_table_versions builds
\* ---------------------------------------------------------------------------

\* The Connect_ID values are 1..MaxKeys.
MaxKeys == 2

ConnectIds == 1..MaxKeys

\* A row of the join has, for each alias v1..vn, the Connect_ID of the row
\* of that table it was made of: {k}, or {} where the table's side is NULL.
RowOf(n, alias, k) == [a \in 1..n |-> IF a = alias THEN {k} ELSE {}]

\* rows FULL OUTER JOIN table `alias` ON base.Connect_ID = alias.Connect_ID:
\* the pairs that match, the rows of the left side without a match (a NULL
\* key matches nothing), and the rows of the table without a match.
FullOuterJoin(rows, n, base, alias, keys) ==
    {[r EXCEPT ![alias] = r[base]] : r \in {x \in rows : x[base] \subseteq keys
                                                       /\ x[base] # {}}}
        \cup {r \in rows : r[base] = {} \/ ~(r[base] \subseteq keys)}
        \cup {RowOf(n, alias, k) :
                  k \in {x \in keys : \A r \in rows : r[base] # {x}}}

RECURSIVE JoinFrom(_, _, _, _)
\* The FULL OUTER JOINs in the order of the statement, from its i-th table on.
JoinFrom(rows, tables, order, i) ==
    IF i > Len(order) THEN rows
    ELSE JoinFrom(FullOuterJoin(rows, Len(tables), order[1], order[i],
                                tables[order[i]]),
                  tables, order, i + 1)

\* The rows of FROM base FULL OUTER JOIN ... of merge_table_versions.
MergeQueryRows(tables) ==
    LET n == Len(tables)
        order == JoinOrder(n)
    IN JoinFrom({RowOf(n, order[1], k) : k \in tables[order[1]]},
                tables, order, 2)

\* COALESCE(v1.Connect_ID, ..., vn.Connect_ID) AS Connect_ID of a row.
CoalescedConnectId(r) ==
    LET first == CHOOSE a \in DOMAIN r :
                     r[a] # {} /\ \A b \in DOMAIN r : b < a => r[b] = {}
    IN CHOOSE k \in r[first] : TRUE

\* The source tables: in each the Connect_ID values are unique and not NULL.
JoinInit ==
    /\ GrammarIdle
    /\ IoIdle
    /\ MergeIdle
    /\ ScanIdle
    /\ invocations = 0
    /\ variable_list = <<>>
    /\ table = "none"
    /\ columns = <<>>
    /\ pc = "query_submitted"
    /\ processed_columns = {}
    /\ connect_id_clause = <<>>
    /\ one_off_clauses = <<>>
    /\ substring_clauses = <<>>
    /\ custom_transform_clauses = <<>>
    /\ loop_clauses = <<>>
    /\ grouped_loop_vars = <<>>
    /\ valid_columns = <<>>
    /\ select_clauses = <<>>
    /\ source_rows \in UNION {[1..n -> SUBSET ConnectIds] : n \in 2..MaxTables}
    /\ result_rows = {}

\* query_job.result(): the destination table is created from the rows of
\* the statement.
RunMergeQuery ==
    /\ pc = "query_submitted"
    /\ pc' = "query_done"
    /\ result_rows' = MergeQueryRows(source_rows)
    /\ UNCHANGED <<grammar_vars, pipeline_vars_but_pc, io_vars, merge_vars,
                   scan_vars, invocations, variable_list, source_rows>>

JoinNext == RunMergeQuery

SpecJoin == JoinInit /\ [][JoinNext]_vars

\* C30: the destination table has exactly one row for each Connect_ID that
\* some source table holds, and that row is made of the rows of all the
\* tables that hold the Connect_ID.
C30_OneRowPerConnectId ==
    pc = "query_done" =>
        \A k \in UNION Range(source_rows) :
            /\ Cardinality({r \in result_rows : CoalescedConnectId(r) = k}) = 1
            /\ \A r \in result_rows :
                   CoalescedConnectId(r) = k =>
                       \A a \in 1..Len(source_rows) :
                           k \in source_rows[a] => r[a] = {k}

====
